---- MODULE Spec2Model ----
(***************************************************************************)
(* Vellaric-Signal orchestration engine: the bounded-concurrency           *)
(* deployment queue (src/src/services/deploymentQueue.js), the deploy      *)
(* pipeline it drives, the persisted deployment history                    *)
(* (src/src/services/database.js) and the database instance provisioner.   *)
(*                                                                         *)
(* Node.js runs one task at a time; a task gives up control only at an     *)
(* await.  Every action below is the code that runs between two awaits of  *)
(* one async function: it takes the result of the awaited external command *)
(* and runs up to the next await.                                          *)
(***************************************************************************)
EXTENDS Integers, Sequences, FiniteSets, TLC

(***************************************************************************)
(* Bounds of the model.  The loop bounds of the code (60 polls of          *)
(* waitForContainer with its thresholds at 30 and 15/5, 30 polls of        *)
(* waitForDnsPropagation, 100 ports scanned by findAvailablePort) are      *)
(* explored with small values; the structure of every loop is the code's.  *)
(***************************************************************************)
MaxDeploys == 3            \* number of queueDeployment calls explored
maxAttempts == 4           \* waitForContainer(name, id, maxAttempts = 60)
runningThreshold == 3      \* if (i >= 30): running long enough
logCheckFrom == 1          \* if (i >= 15 && i % 5 === 0): look at the logs
logCheckEvery == 2
maxWaitSeconds == 2        \* waitForDnsPropagation(domain, 30)
ScanLen == 2               \* for (port = startPort; port < startPort + 100; ...)
MaxHooks == 1              \* webhook requests between logDeployment and queueDeployment
MaxManual == 1             \* deployments triggered by POST /api/projects/:id/deploy
MaxBeforeManual == 0       \* deployments enqueued before the one triggered by that route

(***************************************************************************)
(* Program constants.                                                      *)
(***************************************************************************)
PortBase == 3000           \* findAvailablePort(3000 + ...)

(***************************************************************************)
(* Input sets.                                                             *)
(***************************************************************************)
Deps == 1..MaxDeploys
\* Values of parseInt(process.env.MAX_CONCURRENT_DEPLOYS) that are explored.
Capacities == {1, 2}
\* (project, branch) pairs of the requests; the derived container name,
\* image tag, domain and temporary env file are functions of the pair.  The
\* requests explored are pushes to one branch of one project.
Keys == {"api-dev"}
\* Values of 3000 + Math.floor(Math.random() * 1000) that are explored.
StartPorts == {PortBase}
\* "No port" and "no deployment": values outside the ports the scans can
\* reach and outside Deps.
NoPort == PortBase - 1
NoDep == MaxDeploys + 1

VARIABLES
  \* ---- DeploymentQueue object ----
  queue,               \* this.queue: pending deployments, front first
  buildingDeployments, \* this.buildingDeployments: keys of the Map
  processing,          \* this.processing
  activeDeployments,   \* this.activeDeployments
  maxConcurrent,       \* this.maxConcurrent
  \* ---- deployments ----
  nreq,                \* number of queueDeployment calls made so far
  dep,                 \* deployment -> its record and the locals of its deploy()
  \* ---- outside world ----
  containers,          \* container name -> container of the engine (img: it was
                       \* created from the image its tag names now)
  image,               \* image tag -> an image with that tag exists
  extBusy,             \* host ports bound by processes other than containers
  envFile,             \* the temporary env file of a container name exists
  nginxConf,           \* domain -> port the proxy configuration targets
  emitted,             \* 'deployment:status' event emitted by the last step
  \* ---- deployments table ----
  nextId,              \* the id the next logDeployment call generates
  qid,                 \* deployment -> id assigned by queueDeployment
  rowId,               \* deployment -> id of its history row (0: no row)
  rowStatus,           \* deployment -> status column of its history row
  rowError,            \* deployment -> error column of its history row
  hookRows,            \* ids of the rows whose webhook has not queued yet
  \* ---- environment resolution of one deployment (deploy, lines 213-245) ----
  env,                 \* inputs, containerEnvVars, env file, container environment
  \* ---- DatabaseManager ----
  registry,            \* rows of the databases table
  dbContainers,        \* container name -> PostgreSQL container
  dbDirs,              \* container names whose volume directory exists
  dbCall,              \* call -> locals of one DatabaseManager call
  \* ---- derived names ----
  names,               \* inputs and results of the name derivations
  \* ---- removeDeployment ----
  rmCall,              \* locals of the removeDeployment call
  dnsRecord,           \* the domain has an A record at the DNS provider
  certificate,         \* a certificate of the domain is stored on the host
  apiToken,            \* process.env.CLOUDFLARE_API_TOKEN is set
  \* ---- container health check ----
  health               \* .State.Health.Status of the deployed container

queueVars == <<queue, buildingDeployments, processing, activeDeployments, maxConcurrent>>
worldVars == <<containers, image, extBusy, envFile, nginxConf>>
histVars  == <<nextId, qid, rowId, rowStatus, rowError, hookRows>>
deployVars == <<queueVars, nreq, dep, worldVars, histVars, emitted>>
dbVars == <<registry, dbContainers, dbDirs, dbCall>>
removeVars == <<rmCall, dnsRecord, certificate, apiToken>>
sideVars == <<names, removeVars, health>>
vars == <<deployVars, env, dbVars, sideVars>>

NoContainer == [owner |-> NoDep, port |-> NoPort, state |-> "absent", img |-> FALSE]
NoEvent == [id |-> 0, status |-> "none", error |-> "none"]

\* key:       (project, branch) of the request
\* status:    deployment.status of the in-memory record
\* pc:        the await deploy() is suspended at ("none": not requested,
\*            "queued": in this.queue, "success"/"failed": deploy() ended)
\* i:         counter of the polling loop deploy() is in
\* port:      findAvailablePort's loop variable, then deploy's `port`
\* startPort: argument of findAvailablePort
\* err:       error.message in deploy's catch block
\* soft:      non-fatal failures the deployment has met
NoDeployment ==
  [key |-> "none", status |-> "none", pc |-> "none", i |-> 0, port |-> NoPort,
   startPort |-> NoPort, err |-> "none", soft |-> {}]

\* The engine after construction: an empty queue, no deployment, no
\* container of the engine on the host.  The value of this.maxConcurrent is
\* given by each specification.
InitDeploy ==
  /\ queue = <<>>
  /\ buildingDeployments = {}
  /\ processing = FALSE
  /\ activeDeployments = 0
  /\ nreq = 0
  /\ dep = [d \in Deps |-> NoDeployment]
  /\ containers = [k \in Keys |-> NoContainer]
  /\ image = [k \in Keys |-> FALSE]
  /\ envFile = [k \in Keys |-> FALSE]
  /\ nginxConf = [k \in Keys |-> NoPort]
  /\ emitted = NoEvent
  /\ nextId = 1
  /\ qid = [d \in Deps |-> 0]
  /\ rowId = [d \in Deps |-> 0]
  /\ rowStatus = [d \in Deps |-> "none"]
  /\ rowError = [d \in Deps |-> "none"]
  /\ hookRows = {}

(***************************************************************************)
(* Scheduler: DeploymentQueue.processQueue and its completion handlers.    *)
(***************************************************************************)
\* The while loop of processQueue: shift the front of the queue while there
\* is a free slot.  `started` collects the deployments whose deploy() was
\* called (deploy runs synchronously up to its first await).
\* The loop with `this.activeDeployments++` left out.
RECURSIVE processLoopNoCount(_, _, _, _)
processLoopNoCount(q, active, building, started) ==
  IF Len(q) > 0 /\ active < maxConcurrent
    THEN processLoopNoCount(Tail(q), active, building \cup {Head(q)},
                            started \cup {Head(q)})
    ELSE [queue |-> q, active |-> active, building |-> building,
          started |-> started]

\* The loop taking the deployment pushed last.
RECURSIVE processLoopLifo(_, _, _, _)
processLoopLifo(q, active, building, started) ==
  IF Len(q) > 0 /\ active < maxConcurrent
    THEN processLoopLifo(SubSeq(q, 1, Len(q) - 1), active + 1,
                         building \cup {q[Len(q)]}, started \cup {q[Len(q)]})
    ELSE [queue |-> q, active |-> active, building |-> building,
          started |-> started]

RECURSIVE processLoop(_, _, _, _)
processLoop(q, active, building, started) ==
  IF Len(q) > 0 /\ active < maxConcurrent
    THEN processLoop(Tail(q), active + 1, building \cup {Head(q)},
                     started \cup {Head(q)})
    ELSE [queue |-> q, active |-> active, building |-> building,
          started |-> started]

processQueue(q, active, building) ==
  IF processing \/ Len(q) = 0
    THEN [queue |-> q, active |-> active, building |-> building, started |-> {}]
    ELSE IF active >= maxConcurrent
      THEN [queue |-> q, active |-> active, building |-> building, started |-> {}]
      ELSE processLoop(q, active, building, {})

\* deploy(deployment) up to its first await: the record is marked building
\* and updateDeploymentStatus(id, 'building') is called.
startDeploy(r) == [r EXCEPT !.status = "building", !.pc = "updBuilding"]

\* UPDATE deployments SET status = ?, ... WHERE id = ?
updateDeploymentStatus(id, st) ==
  [x \in Deps |-> IF rowId[x] = id THEN st ELSE rowStatus[x]]

updateDeploymentError(id, e) ==
  [x \in Deps |-> IF rowId[x] = id THEN e ELSE rowError[x]]

\* `deploy_${Date.now()}_${random}`: queueDeployment and logDeployment each
\* generate a fresh id of their own.  The id generated by the d-th
\* queueDeployment call is written 2d, the one generated by the n-th
\* logDeployment call 2n - 1.
deploymentId(d) == 2 * d

\* queueDeployment(deploymentData): it generates the deployment's id, pushes
\* the record and runs processQueue.  It writes nothing to the deployments
\* table.
queueDeployment(d, k) ==
  LET r == processQueue(Append(queue, d), activeDeployments, buildingDeployments)
      queued == [dep EXCEPT ![d] = [@ EXCEPT !.key = k, !.status = "queued",
                                             !.pc = "queued"]]
  IN /\ nreq' = d
     /\ qid' = [qid EXCEPT ![d] = deploymentId(d)]
     /\ queue' = r.queue
     /\ activeDeployments' = r.active
     /\ buildingDeployments' = r.building
     /\ dep' = [x \in Deps |-> IF x \in r.started THEN startDeploy(queued[x])
                               ELSE queued[x]]
     /\ emitted' = NoEvent
     /\ UNCHANGED <<processing, maxConcurrent, worldVars, env, dbVars, sideVars>>

\* The requests explored: each of them calls queueDeployment once.
Requested == nreq + Cardinality(hookRows)

\* The webhook route accepts a push and awaits logDeployment, which
\* generates an id of its own and inserts the history row with status
\* 'queued'.
LogDeployment ==
  /\ Requested < MaxDeploys
  /\ Cardinality(hookRows) < MaxHooks
  /\ hookRows' = hookRows \cup {nextId}
  /\ nextId' = nextId + 2
  /\ emitted' = NoEvent
  /\ UNCHANGED <<queueVars, nreq, dep, worldVars, qid, rowId, rowStatus, rowError,
                 env, dbVars, sideVars>>

\* await logDeployment(deploymentData) returns in the webhook route, which
\* calls queueDeployment.  `id` is the id of the row the route inserted.
QueueDeployment ==
  \E id \in hookRows, k \in Keys :
    /\ queueDeployment(nreq + 1, k)
    /\ rowId' = [rowId EXCEPT ![nreq + 1] = id]
    /\ rowStatus' = [rowStatus EXCEPT ![nreq + 1] = "queued"]
    /\ hookRows' = hookRows \ {id}
    /\ UNCHANGED <<nextId, rowError>>

\* POST /api/projects/:id/deploy: the route calls queueDeployment without
\* logDeployment, so the deployment has no history row.  The requests
\* explored make this call before or between the pushes of the webhook, up
\* to MaxBeforeManual deployments after the first.
ManualDeploy ==
  /\ Requested < MaxDeploys
  /\ nreq <= MaxBeforeManual
  /\ Cardinality({d \in 1..nreq : rowId[d] = 0}) < MaxManual
  /\ \E k \in Keys : queueDeployment(nreq + 1, k)
  /\ UNCHANGED <<nextId, rowId, rowStatus, rowError, hookRows>>

\* The handler without its call of processQueue.
settleNoProcessQueue(d, result) ==
  /\ queue' = queue
  /\ activeDeployments' = activeDeployments - 1
  /\ buildingDeployments' = buildingDeployments \ {d}
  /\ dep' = [dep EXCEPT ![d] = [NoDeployment EXCEPT !.key = dep[d].key,
                                  !.status = dep[d].status, !.pc = result]]
  /\ UNCHANGED <<processing, maxConcurrent>>

\* The handler pushing a failed deployment back before it runs processQueue.
settleRetry(d, result) ==
  LET again == IF result = "failed" THEN Append(queue, d) ELSE queue
      r == processQueue(again, activeDeployments - 1, buildingDeployments \ {d})
      ended == [dep EXCEPT ![d] = [NoDeployment EXCEPT !.key = dep[d].key,
                                     !.status = dep[d].status, !.pc = result]]
  IN /\ queue' = r.queue
     /\ activeDeployments' = r.active
     /\ buildingDeployments' = r.building
     /\ dep' = [x \in Deps |-> IF x \in r.started THEN startDeploy(ended[x])
                               ELSE ended[x]]
     /\ UNCHANGED <<processing, maxConcurrent>>

\* The .then / .catch handler attached by processQueue: forget the
\* deployment, give the slot back, run processQueue again.  It runs in the
\* same turn as the end of deploy(), so it belongs to the action that ends
\* deploy().  `result` is the status deploy() ended with.
settle(d, result) ==
  LET r == processQueue(queue, activeDeployments - 1, buildingDeployments \ {d})
      ended == [dep EXCEPT ![d] = [NoDeployment EXCEPT !.key = dep[d].key,
                                     !.status = dep[d].status, !.pc = result]]
  IN /\ queue' = r.queue
     /\ activeDeployments' = r.active
     /\ buildingDeployments' = r.building
     /\ dep' = [x \in Deps |-> IF x \in r.started THEN startDeploy(ended[x])
                               ELSE ended[x]]
     /\ UNCHANGED <<processing, maxConcurrent>>

\* getQueueStatus with the length of the combined list reported as queued.
getQueueStatusCombined ==
  [queue |-> queue,
   queued |-> Len(queue) + Cardinality(buildingDeployments),
   building |-> Cardinality(buildingDeployments),
   active |-> activeDeployments,
   maxConcurrent |-> maxConcurrent]

\* getQueueStatus(): the pending list followed by the values of the
\* buildingDeployments map (in insertion order, which is the order of the
\* deployments' numbers), and the four counters.
getQueueStatus ==
  LET RECURSIVE values(_)
      values(S) == IF S = {} THEN <<>>
                   ELSE LET d == CHOOSE x \in S : \A y \in S : x <= y
                        IN <<d>> \o values(S \ {d})
  IN [queue |-> queue \o values(buildingDeployments),
      queued |-> Len(queue),
      building |-> Cardinality(buildingDeployments),
      active |-> activeDeployments,
      maxConcurrent |-> maxConcurrent]

(***************************************************************************)
(* DeploymentQueue.deploy, one action per await.                           *)
(***************************************************************************)
\* deploy() of d moves on to await p.
goto(r, p) == [r EXCEPT !.pc = p]

\* The catch block reading a property the error does not have.
failNoMessage(r, e) ==
  [NoDeployment EXCEPT !.key = r.key, !.status = r.status, !.pc = "updFailed"]

\* A rejected await inside the try block: control jumps to the catch block,
\* which calls updateDeploymentStatus(id, 'failed', {error}) and awaits it.
\* The locals of the try block are gone.
fail(r, e) ==
  [NoDeployment EXCEPT !.key = r.key, !.status = r.status,
                       !.pc = "updFailed", !.err = e]

\* A step of deploy() that touches nothing but its own locals.
localStep(d, r) ==
  /\ dep' = [dep EXCEPT ![d] = r]
  /\ emitted' = NoEvent
  /\ UNCHANGED <<queueVars, nreq, worldVars, histVars, env, dbVars, sideVars>>

\* lsof -i:port prints something: a process listens on the port.  A running
\* container holds its published host port.
portBound(p) ==
  \/ p \in extBusy
  \/ \E k \in Keys : containers[k].state = "running" /\ containers[k].port = p

\* await updateDeploymentStatus(id, 'building') returns; the building event
\* is emitted; the source directory is looked up and git is started.
UpdBuilding(d) ==
  /\ dep[d].pc = "updBuilding"
  /\ rowStatus' = updateDeploymentStatus(qid[d], "building")
  /\ emitted' = [id |-> qid[d], status |-> "building", error |-> "none"]
  /\ dep' = [dep EXCEPT ![d] = goto(@, "source")]
  /\ UNCHANGED <<queueVars, nreq, worldVars, nextId, qid, rowId, rowError, hookRows, env, dbVars, sideVars>>

\* git clone / git fetch && checkout && reset returns.
Source(d) ==
  /\ dep[d].pc = "source"
  /\ \/ localStep(d, goto(dep[d], "dockerfile"))
     \/ localStep(d, fail(dep[d], "Command failed: git"))

\* The Dockerfile check with docker stop run before the error is thrown.
DockerfileAfterStop(d) ==
  /\ dep[d].pc = "dockerfile"
  /\ \/ localStep(d, goto(dep[d], "stop"))
     \/ /\ containers' = [containers EXCEPT ![dep[d].key].state =
                            IF @ = "running" THEN "exited" ELSE @]
        /\ dep' = [dep EXCEPT ![d] = fail(@, "No Dockerfile found in repository")]
        /\ emitted' = NoEvent
        /\ UNCHANGED <<queueVars, nreq, image, extBusy, envFile, nginxConf, histVars,
                       env, dbVars, sideVars>>

\* fs.access(Dockerfile) returns; the EXPOSE port is read; docker stop is
\* started.
Dockerfile(d) ==
  /\ dep[d].pc = "dockerfile"
  /\ \/ localStep(d, goto(dep[d], "stop"))
     \/ localStep(d, fail(dep[d], "No Dockerfile found in repository"))

\* docker stop <name> 2>/dev/null || true
dockerStop(c) == IF c.state = "running" THEN [c EXCEPT !.state = "exited"] ELSE c

\* docker rm <name> 2>/dev/null || true: removes a container that is not
\* running; fails (silently) on a running one.
dockerRm(c) == IF c.state \in {"exited", "created"} THEN NoContainer ELSE c

\* docker rmi <image>:<branch> 2>/dev/null || true: fails (silently) while a
\* container created from the image the tag names exists.
dockerRmi(img, c) == IF c.state # "absent" /\ c.img THEN img ELSE FALSE

Stop(d) ==
  /\ dep[d].pc = "stop"
  /\ containers' = [containers EXCEPT ![dep[d].key] = dockerStop(@)]
  /\ dep' = [dep EXCEPT ![d] = goto(@, "rm")]
  /\ emitted' = NoEvent
  /\ UNCHANGED <<queueVars, nreq, image, extBusy, envFile, nginxConf, histVars, env, dbVars, sideVars>>

Rm(d) ==
  /\ dep[d].pc = "rm"
  /\ containers' = [containers EXCEPT ![dep[d].key] = dockerRm(@)]
  /\ dep' = [dep EXCEPT ![d] = goto(@, "rmi")]
  /\ emitted' = NoEvent
  /\ UNCHANGED <<queueVars, nreq, image, extBusy, envFile, nginxConf, histVars, env, dbVars, sideVars>>

Rmi(d) ==
  /\ dep[d].pc = "rmi"
  /\ image' = [image EXCEPT ![dep[d].key] = dockerRmi(@, containers[dep[d].key])]
  /\ dep' = [dep EXCEPT ![d] = goto(@, "build")]
  /\ emitted' = NoEvent
  /\ UNCHANGED <<queueVars, nreq, containers, extBusy, envFile, nginxConf, histVars, env, dbVars, sideVars>>

\* docker build --no-cache -t <image>:<branch> returns.  On success the tag
\* names the new image, which no container was created from, and deploy
\* draws the random start port and findAvailablePort starts its first lsof.
Build(d) ==
  /\ dep[d].pc = "build"
  /\ \/ /\ image' = [image EXCEPT ![dep[d].key] = TRUE]
        /\ containers' = [containers EXCEPT ![dep[d].key].img = FALSE]
        /\ \E s \in StartPorts :
             dep' = [dep EXCEPT ![d] = [@ EXCEPT !.pc = "lsof", !.startPort = s,
                                                 !.port = s]]
     \/ /\ dep' = [dep EXCEPT ![d] = fail(@, "Command failed: docker build")]
        /\ UNCHANGED <<image, containers>>
  /\ emitted' = NoEvent
  /\ UNCHANGED <<queueVars, nreq, extBusy, envFile, nginxConf, histVars, env, dbVars, sideVars>>

\* One iteration of findAvailablePort: lsof -i:port || echo "free" returns,
\* and includesFree is stdout.includes('free').  The port is then returned
\* to deploy, which reads the persisted environment variables and starts
\* writing the temporary env file.
findAvailablePort(r, includesFree) ==
  IF includesFree
    THEN [r EXCEPT !.pc = "writeEnv", !.startPort = NoPort]
    ELSE IF r.port + 1 < r.startPort + ScanLen
      THEN [r EXCEPT !.port = @ + 1]
      ELSE fail(r, "No available ports found")

\* No process on the port: lsof prints nothing and echo prints "free".  A
\* port in use: lsof prints the processes and connections on it, a text that
\* may contain 'free' (a command or host name) or not.
Lsof(d) ==
  /\ dep[d].pc = "lsof"
  /\ \E includesFree \in IF portBound(dep[d].port) THEN BOOLEAN ELSE {TRUE} :
       localStep(d, findAvailablePort(dep[d], includesFree))

\* fs.writeFile(tempEnvPath) returns; docker run is started.
WriteEnv(d) ==
  /\ dep[d].pc = "writeEnv"
  /\ envFile' = [envFile EXCEPT ![dep[d].key] = TRUE]
  /\ dep' = [dep EXCEPT ![d] = goto(@, "run")]
  /\ emitted' = NoEvent
  /\ UNCHANGED <<queueVars, nreq, containers, image, extBusy, nginxConf, histVars, env, dbVars, sideVars>>

\* docker run -d --name <name> -p <port>:<appPort> --env-file <file> <image>.
\* The engine refuses a name in use, a missing env file and a missing image
\* before it creates anything; a host port in use (or a command that cannot
\* be started) makes the start fail after the container was created.
dockerRunRefused(r) ==
  \/ containers[r.key].state # "absent"
  \/ ~envFile[r.key]
  \/ ~image[r.key]

Run(d) ==
  /\ dep[d].pc = "run"
  /\ \/ /\ ~dockerRunRefused(dep[d]) /\ ~portBound(dep[d].port)
        /\ containers' = [containers EXCEPT ![dep[d].key] =
             [owner |-> d, port |-> dep[d].port, state |-> "running", img |-> TRUE]]
        /\ dep' = [dep EXCEPT ![d] = goto(@, "unlink")]
     \/ /\ ~dockerRunRefused(dep[d])
        /\ containers' = [containers EXCEPT ![dep[d].key] =
             [owner |-> d, port |-> dep[d].port, state |-> "created", img |-> TRUE]]
        /\ dep' = [dep EXCEPT ![d] = fail(@, "Command failed: docker run")]
     \/ /\ dockerRunRefused(dep[d])
        /\ dep' = [dep EXCEPT ![d] = fail(@, "Command failed: docker run")]
        /\ UNCHANGED containers
  /\ emitted' = NoEvent
  /\ UNCHANGED <<queueVars, nreq, image, extBusy, envFile, nginxConf, histVars, env, dbVars, sideVars>>

\* fs.unlink(tempEnvPath) returns (a failure is only logged);
\* waitForContainer starts its first poll.
Unlink(d) ==
  /\ dep[d].pc = "unlink"
  /\ envFile' = [envFile EXCEPT ![dep[d].key] = FALSE]
  /\ dep' = [dep EXCEPT ![d] = [@ EXCEPT !.pc = "wait", !.i = 0]]
  /\ emitted' = NoEvent
  /\ UNCHANGED <<queueVars, nreq, containers, image, extBusy, nginxConf, histVars, env, dbVars, sideVars>>

(***************************************************************************)
(* DeploymentQueue.waitForContainer.                                       *)
(***************************************************************************)
\* The loop written as while (true): sleep one second, i++, poll again.
nextAttemptForever(r) == [r EXCEPT !.pc = "wait", !.i = @ + 1]

\* End of a loop iteration that did not return: sleep one second, i++, and
\* either poll again or leave the loop and throw the time-out error.
nextAttempt(r) ==
  IF r.i + 1 < maxAttempts
    THEN [r EXCEPT !.pc = "wait", !.i = @ + 1]
    ELSE fail(r, "Container failed to start properly - timed out waiting for health check")

\* waitForContainer returning straight into the certificate request.
containerReadyToCert(r) == [r EXCEPT !.pc = "cert", !.i = 0]

\* waitForContainer returned: setupDeploymentDns is started.
containerReady(r) == [r EXCEPT !.pc = "dns", !.i = 0]

\* One iteration of the loop await by await, on a container whose
\* Health.Status is `health` ('none' is what the command prints for an image
\* without a HEALTHCHECK, and what `|| echo "none"` prints when there is no
\* container; docker reports a container that is not running as not healthy).
\* docker inspect --format='{{.State.Health.Status}}' returns: 'healthy'
\* returns from waitForContainer, anything else starts docker inspect
\* --format='{{.State.Running}}'.
PollHealth(d) ==
  /\ dep[d].pc = "wait"
  /\ localStep(d, IF containers[dep[d].key].state = "running" /\ health = "healthy"
                    THEN containerReady(dep[d])
                    ELSE goto(dep[d], "inspectRunning"))

\* docker inspect --format='{{.State.Running}}' returns: 'true' returns from
\* waitForContainer at i >= 30, starts docker logs --tail 20 at i = 15, 20,
\* 25 and sleeps otherwise; 'false' starts docker logs --tail 50; or the
\* command fails (no such container) and the catch clause keeps waiting.
PollRunning(d) ==
  /\ dep[d].pc = "inspectRunning"
  /\ LET r == dep[d]
         c == containers[r.key]
     IN localStep(d,
          IF c.state = "absent" THEN nextAttempt(r)
          ELSE IF c.state = "running"
            THEN IF r.i >= runningThreshold THEN containerReady(r)
                 ELSE IF r.i >= logCheckFrom /\ r.i % logCheckEvery = 0
                   THEN goto(r, "logs")
                   ELSE nextAttempt(r)
          ELSE goto(r, "stoppedLogs"))

\* docker logs --tail 20 returns: a line matching /server running|listening|
\* started|ready/i returns from waitForContainer; without one, or when the
\* command fails (the inner catch ignores it), the loop sleeps and goes on.
PollLogs(d) ==
  /\ dep[d].pc = "logs"
  /\ \E started \in BOOLEAN :
       localStep(d, IF started /\ containers[dep[d].key].state # "absent"
                      THEN containerReady(dep[d])
                      ELSE nextAttempt(dep[d]))

\* The health check of the running container reports a new status.
HealthChanges ==
  /\ \E k \in Keys : containers[k].state = "running"
  /\ \/ health = "starting" /\ health' \in {"healthy", "unhealthy"}
     \/ health = "healthy" /\ health' = "unhealthy"
     \/ health = "unhealthy" /\ health' = "healthy"
  /\ UNCHANGED <<deployVars, env, dbVars, names, removeVars>>

\* docker logs --tail 50 of the stopped container returns: the loop throws
\* 'Container stopped unexpectedly'.  If the command itself fails (no such
\* container), the catch clause sees another message and keeps waiting.
stoppedLogs(r) ==
  IF containers[r.key].state # "absent"
    THEN fail(r, "Container stopped unexpectedly")
    ELSE nextAttempt(r)

StoppedLogs(d) ==
  /\ dep[d].pc = "stoppedLogs"
  /\ localStep(d, stoppedLogs(dep[d]))

\* The process of a running container ends.
ContainerExits(k) ==
  /\ containers[k].state = "running"
  /\ containers' = [containers EXCEPT ![k].state = "exited"]
  /\ emitted' = NoEvent
  /\ UNCHANGED <<queueVars, nreq, dep, image, extBusy, envFile, nginxConf, histVars, env, dbVars, sideVars>>

(***************************************************************************)
(* deploy, after readiness: DNS, proxy, certificate, recording.            *)
(***************************************************************************)
warn(r, w) == [r EXCEPT !.soft = @ \cup {w}]

\* setupDeploymentDns(domain) (part_019 219-237) with createDnsRecord
\* (119-168).  Without an API token it returns {success: true, method:
\* 'wildcard'} at once.  With one it awaits getPublicIp, getZoneId,
\* getDnsRecord and the PUT or POST of the record; it catches every error
\* and returns {success: false}.  deploy ignores the result and starts
\* generateNginxConfig.
setupDeploymentDns(r, apiFailed) ==
  IF apiFailed THEN goto(warn(r, "dnsApi"), "nginx") ELSE goto(r, "nginx")

\* The token check, and with a token getPublicIp returning: an address, or
\* null (the request failed and VPS_PUBLIC_IP is not set), which throws.
Dns(d) ==
  /\ dep[d].pc = "dns"
  /\ IF apiToken
       THEN \/ localStep(d, goto(dep[d], "dnsZone"))
            \/ localStep(d, setupDeploymentDns(dep[d], TRUE))
       ELSE localStep(d, setupDeploymentDns(dep[d], FALSE))

\* getZoneId returns the zone, or throws (request failed, zone not found).
DnsZone(d) ==
  /\ dep[d].pc = "dnsZone"
  /\ \/ localStep(d, goto(dep[d], "dnsRecord"))
     \/ localStep(d, setupDeploymentDns(dep[d], TRUE))

\* getDnsRecord returns the record of the domain, or null when there is none
\* or its request failed; the PUT of an existing record or the POST of a new
\* one is started.
DnsRecord(d) ==
  /\ dep[d].pc = "dnsRecord"
  /\ \/ localStep(d, goto(dep[d], IF dnsRecord THEN "dnsUpdate" ELSE "dnsCreate"))
     \/ localStep(d, goto(dep[d], "dnsCreate"))

\* The PUT or POST returns: the domain has its A record; or the API answers
\* with an error (the record to update is gone, the record to create
\* exists, the request failed) and createDnsRecord throws.
DnsWrite(d) ==
  /\ dep[d].pc \in {"dnsUpdate", "dnsCreate"}
  /\ \/ /\ dnsRecord = (dep[d].pc = "dnsUpdate")
        /\ dnsRecord' = TRUE
        /\ dep' = [dep EXCEPT ![d] = setupDeploymentDns(@, FALSE)]
     \/ /\ UNCHANGED dnsRecord
        /\ dep' = [dep EXCEPT ![d] = setupDeploymentDns(@, TRUE)]
  /\ emitted' = NoEvent
  /\ UNCHANGED <<queueVars, nreq, worldVars, histVars, env, dbVars, names, rmCall,
                 certificate, apiToken, health>>

\* generateNginxConfig(domain, port, containerName) returns; reloadNginx is
\* started.
Nginx(d) ==
  /\ dep[d].pc = "nginx"
  /\ \/ /\ nginxConf' = [nginxConf EXCEPT ![dep[d].key] = dep[d].port]
        /\ dep' = [dep EXCEPT ![d] = [@ EXCEPT !.pc = "reload", !.port = NoPort]]
     \/ /\ dep' = [dep EXCEPT ![d] = fail(@, "Command failed: nginx config")]
        /\ UNCHANGED nginxConf
  /\ emitted' = NoEvent
  /\ UNCHANGED <<queueVars, nreq, containers, image, extBusy, envFile, histVars, env, dbVars, sideVars>>

\* reloadNginx returns; waitForDnsPropagation starts its first dig.
reloadNginx(r, ok) ==
  IF ok THEN [r EXCEPT !.pc = "dig", !.i = 0]
        ELSE fail(r, "Command failed: nginx reload")

Reload(d) ==
  /\ dep[d].pc = "reload"
  /\ \E ok \in BOOLEAN : localStep(d, reloadNginx(dep[d], ok))

\* One iteration of waitForDnsPropagation: dig +short returns.  An address
\* ends the wait; nothing (or an error) sleeps one second and tries again.
\* After maxWaitSeconds iterations the function returns false.  deploy
\* ignores the return value and starts ensureSSLCertificate.
waitForDnsPropagation(r, resolved) ==
  IF resolved THEN [r EXCEPT !.pc = "cert", !.i = 0]
  ELSE IF r.i + 1 < maxWaitSeconds THEN [r EXCEPT !.i = @ + 1]
  ELSE [warn(r, "dnsTimeout") EXCEPT !.pc = "cert", !.i = 0]

Dig(d) ==
  /\ dep[d].pc = "dig"
  /\ \E resolved \in BOOLEAN : localStep(d, waitForDnsPropagation(dep[d], resolved))

\* ensureSSLCertificate outside the inner try/catch.
ensureSSLCertificateFatal(r, ok) ==
  IF ok THEN goto(r, "reload2") ELSE fail(r, "Command failed: certbot")

\* ensureSSLCertificate (ssl.js 62-77) returns what obtainCertificate
\* returns, or throws what it throws.  A failure is caught by the inner
\* try/catch of deploy, which logs a warning and goes on to record the
\* success.
ensureSSLCertificate(r, ok) ==
  IF ok THEN goto(r, "reload2") ELSE goto(warn(r, "cert"), "updSuccess")

\* certificateExists returns (fs.access of the stored certificate): with or
\* without a certificate, obtainCertificate starts certbot.
Cert(d) ==
  /\ dep[d].pc = "cert"
  /\ localStep(d, goto(dep[d], "certbot"))

\* certbot --nginx -d <domain> returns: the certificate is stored on the
\* host; or the command fails.
Certbot(d) ==
  /\ dep[d].pc = "certbot"
  /\ \/ /\ certificate' = TRUE
        /\ dep' = [dep EXCEPT ![d] = ensureSSLCertificate(@, TRUE)]
     \/ /\ UNCHANGED certificate
        /\ dep' = [dep EXCEPT ![d] = ensureSSLCertificate(@, FALSE)]
  /\ emitted' = NoEvent
  /\ UNCHANGED <<queueVars, nreq, worldVars, histVars, env, dbVars, names, rmCall,
                 dnsRecord, apiToken, health>>

\* The second reloadNginx returns; it is inside the same inner try/catch.
reloadNginxAfterCert(r, ok) ==
  IF ok THEN goto(r, "updSuccess") ELSE goto(warn(r, "reload"), "updSuccess")

Reload2(d) ==
  /\ dep[d].pc = "reload2"
  /\ \E ok \in BOOLEAN : localStep(d, reloadNginxAfterCert(dep[d], ok))

\* The success path throwing after the success event was emitted: control
\* goes to the catch block.
UpdSuccessThenThrows(d) ==
  /\ dep[d].pc = "updSuccess"
  /\ rowStatus' = updateDeploymentStatus(qid[d], "success")
  /\ emitted' = [id |-> qid[d], status |-> "success", error |-> "none"]
  /\ dep' = [dep EXCEPT ![d] = fail(@, "thrown after success")]
  /\ UNCHANGED <<queueVars, nreq, worldVars, nextId, qid, rowId, rowError, hookRows, env,
                 dbVars, sideVars>>

\* await updateDeploymentStatus(id, 'success', {...}) returns; the success
\* event is emitted; deploy returns and the .then handler runs.
UpdSuccess(d) ==
  /\ dep[d].pc = "updSuccess"
  /\ rowStatus' = updateDeploymentStatus(qid[d], "success")
  /\ emitted' = [id |-> qid[d], status |-> "success", error |-> "none"]
  /\ settle(d, "success")
  /\ UNCHANGED <<nreq, worldVars, nextId, qid, rowId, rowError, hookRows, env, dbVars, sideVars>>

\* await updateDeploymentStatus(id, 'failed', {error}) returns; the failed
\* event is emitted; deploy rethrows and the .catch handler runs.
UpdFailed(d) ==
  /\ dep[d].pc = "updFailed"
  /\ rowStatus' = updateDeploymentStatus(qid[d], "failed")
  /\ rowError' = updateDeploymentError(qid[d], dep[d].err)
  /\ emitted' = [id |-> qid[d], status |-> "failed", error |-> dep[d].err]
  /\ settle(d, "failed")
  /\ UNCHANGED <<nreq, worldVars, nextId, qid, rowId, hookRows, env, dbVars, sideVars>>

(***************************************************************************)
(* deploy when a write to the deployments table fails: db.run calls back   *)
(* with an error and updateDeploymentStatus rejects (database.js 142-146). *)
(***************************************************************************)
\* await updateDeploymentStatus(id, 'building') rejects.  The await is
\* outside the try block: deploy() rejects at once, nothing is emitted, and
\* the .catch handler of processQueue runs.
UpdBuildingFails(d) ==
  /\ dep[d].pc = "updBuilding"
  /\ emitted' = NoEvent
  /\ settle(d, "failed")
  /\ UNCHANGED <<nreq, worldVars, histVars, env, dbVars, sideVars>>

\* await updateDeploymentStatus(id, 'success', {...}) rejects inside the try
\* block: control goes to the catch block, which tries to record the
\* failure.
UpdSuccessFails(d) ==
  /\ dep[d].pc = "updSuccess"
  /\ localStep(d, fail(dep[d], "SQLITE_ERROR"))

\* The rejection of the catch block's update lost: no handler runs.
UpdFailedFailsUnhandled(d) ==
  /\ dep[d].pc = "updFailed"
  /\ emitted' = NoEvent
  /\ dep' = [dep EXCEPT ![d] = [NoDeployment EXCEPT !.key = dep[d].key,
                                  !.status = dep[d].status, !.pc = "failed"]]
  /\ UNCHANGED <<queueVars, nreq, worldVars, histVars, env, dbVars, sideVars>>

\* await updateDeploymentStatus(id, 'failed', {...}) rejects inside the catch
\* block: deploy() rejects with the database error, the failed event is not
\* emitted, and the .catch handler of processQueue runs.
UpdFailedFails(d) ==
  /\ dep[d].pc = "updFailed"
  /\ emitted' = NoEvent
  /\ settle(d, "failed")
  /\ UNCHANGED <<nreq, worldVars, histVars, env, dbVars, sideVars>>

(***************************************************************************)
(* Environment resolution: deploy, lines 213-245, and the env file docker   *)
(* run is given.                                                           *)
(*                                                                         *)
(* A value is a text; the model keeps it as the sequence of its lines.  A   *)
(* line is either plain text or has the form NAME=text.  A JavaScript       *)
(* object is the sequence of its properties in insertion order.            *)
(***************************************************************************)
Plain(t) == [name |-> "", text |-> t]
Assign(n, t) == [name |-> n, text |-> t]
NoValue == <<>>

\* Keys of the persisted and source-tree variables explored (each passes the
\* key format test of POST /api/env), and their order under ORDER BY key ASC.
KeyOrder == <<"DEPLOY_BRANCH", "NODE_ENV", "ZED", "__proto__">>
EnvKeys == {KeyOrder[i] : i \in 1..Len(KeyOrder)}
ReservedKeys == {"DEPLOY_BRANCH", "DEPLOY_COMMIT", "DEPLOY_DOMAIN"}
EnvNames == EnvKeys \cup ReservedKeys

\* Values a persisted variable may have: the environment routes store any
\* string, line breaks included.
EnvValues ==
  {<<Plain("production")>>, <<Plain("1"), Assign("DEPLOY_BRANCH", "evil")>>}
SourceKeys == {"DEPLOY_BRANCH", "NODE_ENV"}
SourceValues == {<<Plain("development")>>}
Branches == {"dev", "main"}
Commits == {"abc123"}

\* const domain = `${subdomain}.${BASE_DOMAIN}` for project "api".
domainOf(branch) ==
  IF branch = "dev" THEN "api-dev.example.com"
  ELSE IF branch = "production" THEN "api-production.example.com"
  ELSE "api.example.com"

NoEnv ==
  [pc |-> "idle", persisted |-> [k \in EnvKeys |-> NoValue],
   source |-> [k \in SourceKeys |-> NoValue], branch |-> "none",
   commit |-> "none", vars |-> <<>>, envVarsFromDb |-> <<>>,
   containerEnvVars |-> <<>>,
   envFileContent |-> <<>>, containerEnv |-> [n \in EnvNames |-> NoValue]]

\* obj[k] = v for a string v.  The key '__proto__' names the prototype
\* accessor of the object: assigning a string to it is ignored and creates
\* no property.
setProp(obj, k, v) ==
  IF k = "__proto__" THEN obj
  ELSE IF \E i \in 1..Len(obj) : obj[i].key = k
    THEN [i \in 1..Len(obj) |->
            IF obj[i].key = k THEN [key |-> k, value |-> v] ELSE obj[i]]
    ELSE Append(obj, [key |-> k, value |-> v])

\* SELECT ... WHERE project_name = ? AND branch = ? ORDER BY key ASC
getEnvironmentVariables(persisted) ==
  LET ks == SelectSeq(KeyOrder, LAMBDA k : persisted[k] # NoValue)
  IN [i \in 1..Len(ks) |-> [key |-> ks[i], value |-> persisted[ks[i]]]]

\* vars.forEach(v => { envObj[v.key] = v.value })
RECURSIVE forEachRow(_, _)
forEachRow(rows, envObj) ==
  IF rows = <<>> THEN envObj
  ELSE forEachRow(Tail(rows), setProp(envObj, Head(rows).key, Head(rows).value))

getEnvironmentVariablesAsObject(persisted) ==
  forEachRow(getEnvironmentVariables(persisted), <<>>)

\* { ...envVarsFromDb, DEPLOY_BRANCH: branch, DEPLOY_COMMIT: commit,
\*   DEPLOY_DOMAIN: domain }
containerEnvVars(envVarsFromDb, branch, commit, domain) ==
  setProp(setProp(setProp(envVarsFromDb,
                          "DEPLOY_BRANCH", <<Plain(branch)>>),
                  "DEPLOY_COMMIT", <<Plain(commit)>>),
          "DEPLOY_DOMAIN", <<Plain(domain)>>)

\* Object.entries(obj).map(([key, value]) => `${key}=${value}`).join('\n'),
\* as the lines of the file: the first line of a value follows "key=", its
\* other lines stand on their own.
RECURSIVE envFileContent(_)
envFileContent(obj) ==
  IF obj = <<>> THEN <<>>
  ELSE <<Assign(Head(obj).key, Head(obj).value[1].text)>>
         \o Tail(Head(obj).value) \o envFileContent(Tail(obj))

\* docker run --env-file: a line NAME=text sets NAME, a later line for the
\* same name replaces an earlier one; a line without "=" names a variable
\* of the host's environment, which has none of them.
RECURSIVE dockerEnvFile(_, _)
dockerEnvFile(lines, e) ==
  IF lines = <<>> THEN e
  ELSE IF Head(lines).name = "" THEN dockerEnvFile(Tail(lines), e)
  ELSE dockerEnvFile(Tail(lines),
                     [e EXCEPT ![Head(lines).name] = <<Head(lines).text>>])

envStep(e) ==
  /\ env' = e
  /\ UNCHANGED <<deployVars, dbVars, sideVars>>

\* POST /api/env (routes/env.js 62-98) calls saveEnvironmentVariable: INSERT
\* OR REPLACE leaves one row for the (project, branch, key), with the value
\* of the request.  The route tests the format of the key only.
SaveEnvironmentVariable ==
  \E k \in EnvKeys, v \in EnvValues :
    /\ env.persisted[k] # v
    /\ envStep([env EXCEPT !.persisted[k] = v])

\* DELETE /api/env/:id calls deleteEnvironmentVariable: the row with the id
\* is gone.
DeleteEnvironmentVariable ==
  \E k \in EnvKeys :
    /\ env.persisted[k] # NoValue
    /\ envStep([env EXCEPT !.persisted[k] = NoValue])

\* const vars = await getEnvironmentVariables(projectName, branch) returns
\* the rows the table holds at that moment, and
\* getEnvironmentVariablesAsObject returns the object made of them.
FetchEnv ==
  /\ env.pc = "fetch"
  /\ envStep([env EXCEPT !.pc = "merge",
                !.vars = getEnvironmentVariables(env.persisted),
                !.envVarsFromDb = getEnvironmentVariablesAsObject(env.persisted)])

MergeEnv ==
  /\ env.pc = "merge"
  /\ envStep([env EXCEPT !.pc = "write",
                !.containerEnvVars = containerEnvVars(env.envVarsFromDb, env.branch,
                                                      env.commit, domainOf(env.branch))])

WriteEnvFile ==
  /\ env.pc = "write"
  /\ envStep([env EXCEPT !.pc = "run",
                !.envFileContent = envFileContent(env.containerEnvVars)])

RunWithEnvFile ==
  /\ env.pc = "run"
  /\ envStep([env EXCEPT !.pc = "running",
                !.containerEnv = dockerEnvFile(env.envFileContent, NoEnv.containerEnv)])

(***************************************************************************)
(* DatabaseManager (src/unnamed/part_018): provisioning of PostgreSQL       *)
(* instances, one action per await of its operations as the API routes     *)
(* (src/unnamed/part_013) call them.                                       *)
(***************************************************************************)
MaxDbCalls == 2            \* number of DatabaseManager calls explored
DbScanLen == 2             \* for (port = startPort; port < startPort + 1000; ...)
dbMaxAttempts == 2         \* waitForDatabase(containerName, username, maxAttempts = 60)
DbPortBase == 5432         \* findAvailablePort(5432)

DbCalls == 1..MaxDbCalls
DbNames == {"app", "App"}
Environments == {"production", "staging"}

\* crypto.randomBytes(16): the id generated by call c.  Call 0 stands for a
\* createDatabase that ended before the manager was started.
generateDatabaseId(c) == <<"db", c>>

\* crypto.randomBytes(24): the password generated by call c.
generatePassword(c) == <<"password", c>>

\* An id no call generates.
NoId == generateDatabaseId(MaxDbCalls + 1)

\* The ids call c can be given: the ids generated before it is made, and an
\* id that was never registered.
DbIds(c) == {generateDatabaseId(x) : x \in 0..(c - 1)} \cup {NoId}

\* name.toLowerCase().replace(/[^a-z0-9]/g, '-') for the names explored.
username(name) == IF name = "App" THEN "app" ELSE name

\* `${username}-${environment}-postgres`
containerNameOf(name, environment) == <<username(name), environment, "postgres">>

DbContainerNames == {containerNameOf(n, e) : n \in DbNames, e \in Environments}
NoDbContainer == [state |-> "absent", port |-> NoPort]

\* op:          the operation called
\* pc:          the await the call is suspended at ("done": it returned,
\*              "failed": it threw)
\* id:          the generated dbId of createDatabase, the id argument of the
\*              other operations
\* name, environment: arguments of createDatabase; columns of dbInfo
\* existingDb:  createDatabase's existingDb is a row
\* port, i:     loop variables of findAvailablePort and waitForDatabase
\* err:         message of the error thrown
\* result:      the registry columns in the value returned to the route
NoDbCall ==
  [op |-> "none", pc |-> "none", id |-> NoId, name |-> "none",
   environment |-> "none", existingDb |-> FALSE, port |-> NoPort, i |-> 0,
   err |-> "none", result |-> {}]

\* The object createDatabase saves and returns.
databaseInfo(id, name, environment, port, password) ==
  [id |-> id, name |-> name, environment |-> environment,
   container_name |-> containerNameOf(name, environment), port |-> port,
   password |-> password]

InitDb ==
  /\ registry = {}
  /\ dbContainers = [cn \in DbContainerNames |-> NoDbContainer]
  /\ dbDirs = {}
  /\ dbCall = [c \in DbCalls |-> NoDbCall]

\* The manager started on a host where createDatabase('app', 'production')
\* ended earlier: the row is registered and its container runs.
InitDbRegistered ==
  /\ registry = {databaseInfo(generateDatabaseId(0), "app", "production", DbPortBase,
                              generatePassword(0))}
  /\ dbContainers = [cn \in DbContainerNames |->
                       IF cn = containerNameOf("app", "production")
                         THEN [state |-> "running", port |-> DbPortBase]
                         ELSE NoDbContainer]
  /\ dbDirs = {containerNameOf("app", "production")}
  /\ dbCall = [c \in DbCalls |-> NoDbCall]

\* The duplicate check made with the derived user name.
getDatabaseByUsername(name, environment) ==
  {row \in registry : row.name = username(name) /\ row.environment = environment}

\* SELECT * FROM databases WHERE name = ? AND environment = ?
getDatabaseByName(name, environment) ==
  {row \in registry : row.name = name /\ row.environment = environment}

\* SELECT * FROM databases WHERE id = ?
getDatabaseById(id) == {row \in registry : row.id = id}

\* SELECT * FROM databases ORDER BY created_at DESC
listDatabases == registry

dbFail(r, e) == [r EXCEPT !.pc = "failed", !.err = e, !.i = 0]

dbPortBound(p) ==
  \E cn \in DbContainerNames :
    dbContainers[cn].state = "running" /\ dbContainers[cn].port = p

\* A step of a call that touches nothing but its own locals.
dbLocalStep(c, r) ==
  /\ dbCall' = [dbCall EXCEPT ![c] = r]
  /\ UNCHANGED <<registry, dbContainers, dbDirs, deployVars, env, sideVars>>

\* Calls are numbered in the order they are made.
nextCall(c) ==
  /\ dbCall[c].pc = "none"
  /\ \A x \in DbCalls : x < c => dbCall[x].pc # "none"

\* createDatabase(name, environment) is called: it generates the id and the
\* password, derives the user and container names and hands the duplicate
\* check to SQLite.
createDatabase(c, name, environment) ==
  dbLocalStep(c, [NoDbCall EXCEPT !.op = "create", !.pc = "lookup",
                    !.id = generateDatabaseId(c), !.name = name,
                    !.environment = environment,
                    !.existingDb = (getDatabaseByName(name, environment) # {})])

CreateDatabase(c) ==
  /\ nextCall(c)
  /\ \E name \in DbNames, environment \in Environments :
       createDatabase(c, name, environment)

\* await this.getDatabaseByName(name, environment) returns: a row makes
\* createDatabase throw; otherwise docker ps -a is started.
duplicateCheck(r) ==
  IF r.existingDb THEN dbFail(r, "already exists") ELSE [r EXCEPT !.pc = "ps"]

DuplicateCheck(c) ==
  /\ dbCall[c].op = "create" /\ dbCall[c].pc = "lookup"
  /\ dbLocalStep(c, duplicateCheck(dbCall[c]))

\* docker ps -a --filter name=^<container>$ returns: an existing container
\* is removed with its data; otherwise findAvailablePort starts.  Or the
\* command fails (the engine does not answer): the catch block ignores the
\* error, the clean-up is skipped and findAvailablePort starts.
Ps(c) ==
  /\ dbCall[c].pc = "ps"
  /\ LET cn == containerNameOf(dbCall[c].name, dbCall[c].environment) IN
       \/ dbLocalStep(c, IF dbContainers[cn].state # "absent"
                           THEN [dbCall[c] EXCEPT !.pc = "rmf"]
                           ELSE [dbCall[c] EXCEPT !.pc = "lsof", !.port = DbPortBase])
       \/ dbLocalStep(c, [dbCall[c] EXCEPT !.pc = "lsof", !.port = DbPortBase])

\* docker rm -f <container> returns.  The command exits with 0 and rm -rf is
\* started: the container, if there still is one, is gone.  For a container
\* that is gone already the exit status depends on the engine: 0 since
\* Docker 20.10, 1 before, and then the catch swallows the error and skips
\* rm -rf.
Rmf(c) ==
  /\ dbCall[c].pc = "rmf"
  /\ LET cn == containerNameOf(dbCall[c].name, dbCall[c].environment) IN
       \/ /\ dbContainers' = [dbContainers EXCEPT ![cn] = NoDbContainer]
          /\ dbCall' = [dbCall EXCEPT ![c].pc = "rmrf"]
       \/ /\ dbContainers[cn].state = "absent"
          /\ dbCall' = [dbCall EXCEPT ![c].pc = "lsof", ![c].port = DbPortBase]
          /\ UNCHANGED dbContainers
  /\ UNCHANGED <<registry, dbDirs, deployVars, env, sideVars>>

\* rm -rf <volumePath> returns.
Rmrf(c) ==
  /\ dbCall[c].pc = "rmrf"
  /\ dbDirs' = dbDirs \ {containerNameOf(dbCall[c].name, dbCall[c].environment)}
  /\ dbCall' = [dbCall EXCEPT ![c].pc = "lsof", ![c].port = DbPortBase]
  /\ UNCHANGED <<registry, dbContainers, deployVars, env, sideVars>>

\* One iteration of DatabaseManager.findAvailablePort: lsof -i:port || echo
\* "free" returns, and includesFree is stdout.includes('free').
dbFindAvailablePort(r, includesFree) ==
  IF includesFree THEN [r EXCEPT !.pc = "mkdir"]
  ELSE IF r.port + 1 < DbPortBase + DbScanLen THEN [r EXCEPT !.port = @ + 1]
  ELSE dbFail([r EXCEPT !.port = NoPort], "No available ports")

\* The output for a port in use may contain 'free' or not.
DbLsof(c) ==
  /\ dbCall[c].pc = "lsof"
  /\ \E includesFree \in IF dbPortBound(dbCall[c].port) THEN BOOLEAN ELSE {TRUE} :
       dbLocalStep(c, dbFindAvailablePort(dbCall[c], includesFree))

\* mkdir -p <volumePath> returns; docker run is started.
Mkdir(c) ==
  /\ dbCall[c].pc = "mkdir"
  /\ dbDirs' = dbDirs \cup {containerNameOf(dbCall[c].name, dbCall[c].environment)}
  /\ dbCall' = [dbCall EXCEPT ![c].pc = "run"]
  /\ UNCHANGED <<registry, dbContainers, deployVars, env, sideVars>>

\* docker run -d --name <container> -p <port>:5432 -v <volumePath>:... returns.
\* A name in use is refused before anything is created.  A host port in use
\* makes the start fail after the container was created, before its mounts
\* are set up.  Otherwise the container runs, and the engine has created the
\* host directory of the bind mount if it was missing.
DbRun(c) ==
  /\ dbCall[c].pc = "run"
  /\ LET cn == containerNameOf(dbCall[c].name, dbCall[c].environment) IN
       IF dbContainers[cn].state # "absent"
         THEN /\ dbCall' = [dbCall EXCEPT ![c] = dbFail(@, "Command failed: docker run")]
              /\ UNCHANGED <<dbContainers, dbDirs>>
         ELSE IF dbPortBound(dbCall[c].port)
           THEN /\ dbContainers' = [dbContainers EXCEPT ![cn] =
                     [state |-> "created", port |-> dbCall[c].port]]
                /\ dbCall' = [dbCall EXCEPT ![c] = dbFail(@, "Command failed: docker run")]
                /\ UNCHANGED dbDirs
           ELSE /\ dbContainers' = [dbContainers EXCEPT ![cn] =
                     [state |-> "running", port |-> dbCall[c].port]]
                /\ dbDirs' = dbDirs \cup {cn}
                /\ dbCall' = [dbCall EXCEPT ![c].pc = "waitdb", ![c].i = 0]
  /\ UNCHANGED <<registry, deployVars, env, sideVars>>

\* The PostgreSQL server of a container that is being waited for exits
\* during its start-up.
DbContainerExits(cn) ==
  /\ dbContainers[cn].state = "running"
  /\ \E c \in DbCalls :
       /\ dbCall[c].pc \in {"waitdb", "isready", "dblogs"}
       /\ containerNameOf(dbCall[c].name, dbCall[c].environment) = cn
  /\ dbContainers' = [dbContainers EXCEPT ![cn].state = "exited"]
  /\ UNCHANGED <<registry, dbDirs, dbCall, deployVars, env, sideVars>>

\* The end of an iteration of waitForDatabase that did not return: sleep
\* two seconds, i++, and either poll again or leave the loop and throw the
\* time-out error.
waitForDatabase(r) ==
  IF r.i + 1 < dbMaxAttempts THEN [r EXCEPT !.pc = "waitdb", !.i = @ + 1]
  ELSE dbFail(r, "Database failed to start")

\* docker ps --filter name=<container> --filter status=running returns: a
\* container that is listed is asked whether it accepts connections, for one
\* that is not its logs are read.
WaitForDatabase(c) ==
  /\ dbCall[c].pc = "waitdb"
  /\ LET cn == containerNameOf(dbCall[c].name, dbCall[c].environment) IN
       dbLocalStep(c, IF dbContainers[cn].state = "running"
                        THEN [dbCall[c] EXCEPT !.pc = "isready"]
                        ELSE [dbCall[c] EXCEPT !.pc = "dblogs"])

\* docker exec <container> pg_isready returns: 'accepting connections' ends
\* the wait; any other answer, and the failure of the command on a
\* container that does not run, keeps waiting.
PgIsReady(c) ==
  /\ dbCall[c].pc = "isready"
  /\ LET cn == containerNameOf(dbCall[c].name, dbCall[c].environment) IN
       \E accepting \in BOOLEAN :
         dbLocalStep(c, IF dbContainers[cn].state = "running" /\ accepting
                          THEN [dbCall[c] EXCEPT !.pc = "save", !.i = 0]
                          ELSE waitForDatabase(dbCall[c]))

\* docker logs <container> 2>&1 | tail -20 returns and the loop throws
\* 'Container ... failed to start' inside its try block: the catch keeps
\* waiting like for any other error.
DbLogs(c) ==
  /\ dbCall[c].pc = "dblogs"
  /\ dbLocalStep(c, waitForDatabase(dbCall[c]))

\* The INSERT into a table whose container_name column is not UNIQUE.
saveDatabaseInfoNotUnique(c) ==
  LET r == dbCall[c]
      info == databaseInfo(r.id, r.name, r.environment, r.port, generatePassword(c)) IN
  /\ registry' = registry \cup {info}
  /\ dbCall' = [dbCall EXCEPT ![c].pc = "done", ![c].result = {info}]

\* INSERT INTO databases ... returns; container_name is UNIQUE.  On success
\* createDatabase returns the instance with its password.
saveDatabaseInfo(c) ==
  LET r == dbCall[c]
      info == databaseInfo(r.id, r.name, r.environment, r.port, generatePassword(c)) IN
  IF \E row \in registry : row.container_name = info.container_name
    THEN /\ dbCall' = [dbCall EXCEPT ![c] = dbFail(@, "SQLITE_CONSTRAINT")]
         /\ UNCHANGED registry
    ELSE /\ registry' = registry \cup {info}
         /\ dbCall' = [dbCall EXCEPT ![c].pc = "done", ![c].result = {info}]

SaveDatabaseInfo(c) ==
  /\ dbCall[c].pc = "save"
  /\ saveDatabaseInfo(c)
  /\ UNCHANGED <<dbContainers, dbDirs, deployVars, env, sideVars>>

\* An operation on an id is called and its getDatabaseById returns: without
\* a row it throws, with a row it starts its first command.
lookupById(c, op, id, pc) ==
  LET rows == getDatabaseById(id)
      call == [NoDbCall EXCEPT !.op = op, !.id = id] IN
  dbLocalStep(c, IF rows = {} THEN dbFail(call, "Database not found")
                 ELSE LET dbInfo == CHOOSE row \in rows : TRUE IN
                      [call EXCEPT !.pc = pc, !.name = dbInfo.name,
                                   !.environment = dbInfo.environment])

\* GET /api/databases: the rows as listDatabases selects them.
ListDatabases(c) ==
  /\ nextCall(c)
  /\ dbLocalStep(c, [NoDbCall EXCEPT !.op = "list", !.pc = "done",
                                     !.result = listDatabases])

\* GET /api/databases/:id: the row as getDatabaseById selects it, or 404.
GetDatabase(c) ==
  /\ nextCall(c)
  /\ \E id \in DbIds(c) :
       LET call == [NoDbCall EXCEPT !.op = "get", !.id = id] IN
       dbLocalStep(c, IF getDatabaseById(id) = {}
                        THEN dbFail(call, "Database not found")
                        ELSE [call EXCEPT !.pc = "done", !.result = getDatabaseById(id)])

\* deleteDatabase(id) is called and getDatabaseById returns.
deleteDatabase(c, id) == lookupById(c, "delete", id, "delStop")

DeleteDatabase(c) ==
  /\ nextCall(c)
  /\ \E id \in DbIds(c) : deleteDatabase(c, id)

\* docker stop <container> 2>/dev/null || true
DelStop(c) ==
  /\ dbCall[c].pc = "delStop"
  /\ LET cn == containerNameOf(dbCall[c].name, dbCall[c].environment) IN
       dbContainers' = [dbContainers EXCEPT ![cn] =
         IF @.state = "running" THEN [state |-> "exited", port |-> @.port] ELSE @]
  /\ dbCall' = [dbCall EXCEPT ![c].pc = "delRm"]
  /\ UNCHANGED <<registry, dbDirs, deployVars, env, sideVars>>

\* docker rm followed by the commented-out `rm -rf ${dbInfo.volume_path}`.
DelRmVolume(c) ==
  /\ dbCall[c].pc = "delRm"
  /\ LET cn == containerNameOf(dbCall[c].name, dbCall[c].environment) IN
       /\ dbContainers' = [dbContainers EXCEPT ![cn] =
            IF @.state \in {"exited", "created"} THEN NoDbContainer ELSE @]
       /\ dbDirs' = dbDirs \ {cn}
  /\ dbCall' = [dbCall EXCEPT ![c].pc = "delRow"]
  /\ UNCHANGED <<registry, deployVars, env, sideVars>>

\* docker rm <container> 2>/dev/null || true
DelRm(c) ==
  /\ dbCall[c].pc = "delRm"
  /\ LET cn == containerNameOf(dbCall[c].name, dbCall[c].environment) IN
       dbContainers' = [dbContainers EXCEPT ![cn] =
         IF @.state \in {"exited", "created"} THEN NoDbContainer ELSE @]
  /\ dbCall' = [dbCall EXCEPT ![c].pc = "delRow"]
  /\ UNCHANGED <<registry, dbDirs, deployVars, env, sideVars>>

\* DELETE FROM databases WHERE id = ?
DelRow(c) ==
  /\ dbCall[c].pc = "delRow"
  /\ registry' = registry \ getDatabaseById(dbCall[c].id)
  /\ dbCall' = [dbCall EXCEPT ![c].pc = "done"]
  /\ UNCHANGED <<dbContainers, dbDirs, deployVars, env, sideVars>>

\* startDatabase(id), stopDatabase(id) or restartDatabase(id) is called and
\* getDatabaseById returns.
ContainerOps == {"start", "stop", "restart"}

StartStopRestart(c) ==
  /\ nextCall(c)
  /\ \E op \in ContainerOps, id \in DbIds(c) : lookupById(c, op, id, "docker")

\* docker start | stop | restart <container> returns.
dockerCommand(op, container) ==
  IF op = "stop"
    THEN [container EXCEPT !.state = IF @ = "running" THEN "exited" ELSE @]
    ELSE [container EXCEPT !.state = "running"]

dockerCommandFails(op, container) ==
  \/ container.state = "absent"
  \/ op # "stop" /\ container.state # "running" /\ dbPortBound(container.port)

DockerCommand(c) ==
  /\ dbCall[c].pc = "docker"
  /\ LET cn == containerNameOf(dbCall[c].name, dbCall[c].environment) IN
       IF dockerCommandFails(dbCall[c].op, dbContainers[cn])
         THEN /\ dbCall' = [dbCall EXCEPT ![c] =
                   dbFail(@, "Command failed: docker")]
              /\ UNCHANGED dbContainers
         ELSE /\ dbContainers' = [dbContainers EXCEPT ![cn] =
                   dockerCommand(dbCall[c].op, @)]
              /\ dbCall' = [dbCall EXCEPT ![c].pc = "done"]
  /\ UNCHANGED <<registry, dbDirs, deployVars, env, sideVars>>

\* GET /api/databases/:id/stats: the route's getDatabaseById returns; with a
\* row it calls getDatabaseStats(database.container_name).
StatsDatabase(c) ==
  /\ nextCall(c)
  /\ \E id \in DbIds(c) : lookupById(c, "stats", id, "statsSelect")

\* getDatabaseStats: SELECT username, database FROM databases WHERE
\* container_name = ? returns; without a row it throws.
getDatabaseStats(r) ==
  IF \E row \in registry : row.container_name = containerNameOf(r.name, r.environment)
    THEN [r EXCEPT !.pc = "statsInspect"]
    ELSE dbFail(r, "Database not found for container")

StatsSelect(c) ==
  /\ dbCall[c].pc = "statsSelect"
  /\ dbLocalStep(c, getDatabaseStats(dbCall[c]))

\* docker inspect with the psql queries run whatever it prints.
statsInspectQueries(r, container) ==
  IF container.state = "absent" THEN dbFail(r, "Command failed: docker inspect")
  ELSE [r EXCEPT !.pc = "statsExec"]

\* docker inspect <container> returns: a container that is not running
\* gives the 'stopped' statistics, a running one is asked for its size,
\* connections and resource usage.
statsInspect(r, container) ==
  IF container.state = "absent" THEN dbFail(r, "Command failed: docker inspect")
  ELSE IF container.state # "running"
    THEN [r EXCEPT !.pc = "done",
                   !.result = {[status |-> "stopped", size |-> "N/A",
                                connections |-> 0, uptime |-> "N/A"]}]
  ELSE [r EXCEPT !.pc = "statsExec"]

StatsInspect(c) ==
  /\ dbCall[c].pc = "statsInspect"
  /\ dbLocalStep(c, statsInspect(dbCall[c],
       dbContainers[containerNameOf(dbCall[c].name, dbCall[c].environment)]))

\* docker exec <container> psql ... returns: the command fails unless the
\* container is running and its server answers the query (`answers`);
\* otherwise the next command (at `next`) is started.
statsExec(r, container, answers, next) ==
  IF container.state = "running" /\ answers THEN [r EXCEPT !.pc = next]
  ELSE dbFail(r, "Command failed: docker exec")

\* The query for the database size returns.
StatsExec(c) ==
  /\ dbCall[c].pc = "statsExec"
  /\ \E answers \in BOOLEAN :
       dbLocalStep(c, statsExec(dbCall[c],
         dbContainers[containerNameOf(dbCall[c].name, dbCall[c].environment)],
         answers, "statsConnections"))

\* The query for the active connections returns.
StatsConnections(c) ==
  /\ dbCall[c].pc = "statsConnections"
  /\ \E answers \in BOOLEAN :
       dbLocalStep(c, statsExec(dbCall[c],
         dbContainers[containerNameOf(dbCall[c].name, dbCall[c].environment)],
         answers, "statsDocker"))

\* docker stats <container> --no-stream returns: it fails for a container
\* that does not exist and prints zeros for one that is not running.
StatsDocker(c) ==
  /\ dbCall[c].pc = "statsDocker"
  /\ LET cn == containerNameOf(dbCall[c].name, dbCall[c].environment) IN
       dbLocalStep(c, IF dbContainers[cn].state = "absent"
                        THEN dbFail(dbCall[c], "Command failed: docker stats")
                        ELSE [dbCall[c] EXCEPT !.pc = "statsUptime"])

\* docker inspect <container> --format='{{.State.StartedAt}}' returns, and
\* getDatabaseStats returns the 'running' statistics.
StatsUptime(c) ==
  /\ dbCall[c].pc = "statsUptime"
  /\ LET cn == containerNameOf(dbCall[c].name, dbCall[c].environment) IN
       dbLocalStep(c, IF dbContainers[cn].state = "absent"
                        THEN dbFail(dbCall[c], "Command failed: docker inspect")
                        ELSE [dbCall[c] EXCEPT !.pc = "done",
                                               !.result = {[status |-> "running"]}])

(***************************************************************************)
(* The container routes POST /api/containers/:containerName/stop, /start   *)
(* and /restart (part_013 287-340): each runs one docker command on the    *)
(* container named in the request, whichever component started it.  A      *)
(* command that fails (no such container, host port in use) answers 500    *)
(* and changes nothing.                                                    *)
(***************************************************************************)
\* The route acts on a container of the deployment engine.
ContainerRoute(k) ==
  /\ \E op \in ContainerOps :
       /\ containers[k].state # "absent"
       /\ op # "stop" /\ containers[k].state # "running" => ~portBound(containers[k].port)
       /\ containers' = [containers EXCEPT ![k].state =
            IF op = "stop" THEN dockerStop(containers[k]).state ELSE "running"]
       /\ health' = IF health = "none" \/ op = "stop" THEN health
                    ELSE IF op = "start" /\ containers[k].state = "running" THEN health
                    ELSE "starting"
  /\ emitted' = NoEvent
  /\ UNCHANGED <<queueVars, nreq, dep, image, extBusy, envFile, nginxConf, histVars, env,
                 dbVars, names, removeVars>>

\* The route acts on the container of a database instance.
DbContainerRoute(cn) ==
  /\ \E op \in ContainerOps :
       /\ ~dockerCommandFails(op, dbContainers[cn])
       /\ dbContainers' = [dbContainers EXCEPT ![cn] = dockerCommand(op, @)]
  /\ UNCHANGED <<registry, dbDirs, dbCall, deployVars, env, sideVars>>

\* POST /api/cleanup calls cleanupDockerImages: docker image prune -a -f
\* returns, and every image no container was created from is gone.
CleanupDockerImages ==
  /\ image' = [k \in Keys |-> dockerRmi(image[k], containers[k])]
  /\ emitted' = NoEvent
  /\ UNCHANGED <<queueVars, nreq, dep, containers, extBusy, envFile, nginxConf,
                 histVars, env, dbVars, sideVars>>

(***************************************************************************)
(* Derived names: the container name and domain that deploy                *)
(* (deploymentQueue.js 138-150) and removeDeployment (part_015 13-25)      *)
(* derive from a project name and a branch, and the container name that    *)
(* createDatabase (part_018 44-46) derives from a database name and an     *)
(* environment.  A string is the sequence of its characters, which are     *)
(* Latin-1 characters (U+0000..U+00FF).                                    *)
(***************************************************************************)
LowerCase ==
  [A |-> "a", B |-> "b", C |-> "c", D |-> "d", E |-> "e", F |-> "f", G |-> "g",
   H |-> "h", I |-> "i", J |-> "j", K |-> "k", L |-> "l", M |-> "m", N |-> "n",
   O |-> "o", P |-> "p", Q |-> "q", R |-> "r", S |-> "s", T |-> "t", U |-> "u",
   V |-> "v", W |-> "w", X |-> "x", Y |-> "y", Z |-> "z"]

\* String.prototype.toLowerCase, on strings of Latin-1 characters: the
\* letters A-Z, and the letters of U+00C0..U+00DE (all but the sign U+00D7).
toLowerCase(s) ==
  LET Latin1 ==
        ("À" :> "à") @@ ("Á" :> "á") @@ ("Â" :> "â") @@ ("Ã" :> "ã") @@
        ("Ä" :> "ä") @@ ("Å" :> "å") @@ ("Æ" :> "æ") @@ ("Ç" :> "ç") @@
        ("È" :> "è") @@ ("É" :> "é") @@ ("Ê" :> "ê") @@ ("Ë" :> "ë") @@
        ("Ì" :> "ì") @@ ("Í" :> "í") @@ ("Î" :> "î") @@ ("Ï" :> "ï") @@
        ("Ð" :> "ð") @@ ("Ñ" :> "ñ") @@ ("Ò" :> "ò") @@ ("Ó" :> "ó") @@
        ("Ô" :> "ô") @@ ("Õ" :> "õ") @@ ("Ö" :> "ö") @@ ("Ø" :> "ø") @@
        ("Ù" :> "ù") @@ ("Ú" :> "ú") @@ ("Û" :> "û") @@ ("Ü" :> "ü") @@
        ("Ý" :> "ý") @@ ("Þ" :> "þ")
  IN [i \in 1..Len(s) |->
        IF s[i] \in DOMAIN LowerCase THEN LowerCase[s[i]]
        ELSE IF s[i] \in DOMAIN Latin1 THEN Latin1[s[i]]
        ELSE s[i]]

\* s.replace(/\s+/g, '-'): every run of white space becomes one '-'.  The
\* Latin-1 characters \s matches are space, tab, line feed, vertical tab
\* (U+000B), form feed, carriage return and the no-break space (U+00A0).
RECURSIVE replaceWhiteSpace(_)
replaceWhiteSpace(s) ==
  LET WhiteSpace == {" ", "\t", "\n", "\f", "\r", "", " "}
  IN IF s = <<>> THEN <<>>
     ELSE IF Head(s) \notin WhiteSpace
       THEN <<Head(s)>> \o replaceWhiteSpace(Tail(s))
     ELSE IF Len(s) > 1 /\ s[2] \in WhiteSpace THEN replaceWhiteSpace(Tail(s))
     ELSE <<"-">> \o replaceWhiteSpace(Tail(s))

\* s.replace(/[^a-z0-9]/g, '-'): every other character becomes '-'.
replaceNonAlphanumeric(s) ==
  LET LowerLetters == {LowerCase[c] : c \in DOMAIN LowerCase}
      Digits == {"0", "1", "2", "3", "4", "5", "6", "7", "8", "9"}
  IN [i \in 1..Len(s) |-> IF s[i] \in LowerLetters \cup Digits THEN s[i] ELSE "-"]

\* The string literals of the derivations, and 'main' and 'staging' for the
\* branches the code does not name; baseDomain is
\* process.env.BASE_DOMAIN || 'example.com'.
Str ==
  [dev |-> <<"d", "e", "v">>,
   production |-> <<"p", "r", "o", "d", "u", "c", "t", "i", "o", "n">>,
   main |-> <<"m", "a", "i", "n">>,
   staging |-> <<"s", "t", "a", "g", "i", "n", "g">>,
   baseDomain |-> <<"e", "x", "a", "m", "p", "l", "e", ".", "c", "o", "m">>,
   postgres |-> <<"p", "o", "s", "t", "g", "r", "e", "s">>,
   app |-> <<"a", "p", "p">>]

\* const dockerImageName = projectName.replace(/\s+/g, '-').toLowerCase()
dockerImageName(projectName) == toLowerCase(replaceWhiteSpace(projectName))

\* const containerName = `${dockerImageName}-${branch}`
containerName(projectName, branch) == dockerImageName(projectName) \o <<"-">> \o branch

\* let subdomain = dockerImageName; if (branch === 'dev') ... else if
\* (branch === 'production') ...
subdomain(projectName, branch) ==
  IF branch = Str.dev THEN dockerImageName(projectName) \o <<"-">> \o Str.dev
  ELSE IF branch = Str.production
    THEN dockerImageName(projectName) \o <<"-">> \o Str.production
  ELSE dockerImageName(projectName)

\* const domain = `${subdomain}.${process.env.BASE_DOMAIN || 'example.com'}`
domain(projectName, branch) == subdomain(projectName, branch) \o <<".">> \o Str.baseDomain

\* removeDeployment: const containerName = ...; const baseProjectName = ...;
\* let subdomain = ...; const domain = ...
removeContainerName(projectName, branch) ==
  toLowerCase(replaceWhiteSpace(projectName)) \o <<"-">> \o branch

removeDomain(projectName, branch) ==
  LET baseProjectName == toLowerCase(replaceWhiteSpace(projectName))
      sub == IF branch = Str.dev THEN baseProjectName \o <<"-">> \o Str.dev
             ELSE IF branch = Str.production
               THEN baseProjectName \o <<"-">> \o Str.production
             ELSE baseProjectName
  IN sub \o <<".">> \o Str.baseDomain

\* createDatabase: const username = name.toLowerCase().replace(/[^a-z0-9]/g, '-');
\* const containerName = `${username}-${environment}-postgres`
databaseContainerName(name, environment) ==
  replaceNonAlphanumeric(toLowerCase(name)) \o <<"-">> \o environment
    \o <<"-">> \o Str.postgres

\* The state of a removeDeployment call.
\* pc:     the await removeDeployment is at ("none": not called)
\* key:    the container name derived from (projectName, branch)
\* dns:    deleteDnsRecord went past its token check
\* result: "success" for the returned object, "error" for the rethrown error
\* before: the pending list, building set, active counter, DNS record and
\*         certificate at the time of the call
NoRemoval ==
  [pc |-> "none", key |-> "none", dns |-> FALSE, result |-> "none",
   before |-> <<>>]

\* listPc:   the await listDeployments is at ("none": not called)
\* listCur:  the container of the current iteration of its loop
\* listRest: the containers of the iterations to come
\* listPort: the port output of the current iteration, parsed
NoNames ==
  [projectName |-> <<>>, branch |-> <<>>, name |-> <<>>,
   environment |-> <<>>, containerName |-> <<>>, domain |-> <<>>,
   removeContainerName |-> <<>>, removeDomain |-> <<>>,
   databaseContainerName |-> <<>>, listPc |-> "none", listCur |-> <<>>,
   listRest |-> {}, listPort |-> 0, deployments |-> {}]

\* deploy derives its names.
DeployNames ==
  /\ names.projectName # <<>> /\ names.containerName = <<>>
  /\ names' = [names EXCEPT
       !.containerName = containerName(names.projectName, names.branch),
       !.domain = domain(names.projectName, names.branch)]
  /\ UNCHANGED <<deployVars, env, dbVars, removeVars, health>>

\* removeDeployment(projectName, branch) is called: it derives its names and
\* starts docker stop.
RemoveNames ==
  /\ names.projectName # <<>> /\ rmCall.pc = "none"
  /\ names' = [names EXCEPT
       !.removeContainerName = removeContainerName(names.projectName, names.branch),
       !.removeDomain = removeDomain(names.projectName, names.branch)]
  /\ \E k \in Keys :
       rmCall' = [NoRemoval EXCEPT !.pc = "stop", !.key = k,
                    !.before = <<queue, buildingDeployments, activeDeployments,
                                 dnsRecord, certificate>>]
  /\ UNCHANGED <<deployVars, env, dbVars, dnsRecord, certificate, apiToken, health>>

\* createDatabase derives its container name.
DatabaseNamesStep ==
  /\ names.name # <<>> /\ names.databaseContainerName = <<>>
  /\ names' = [names EXCEPT
       !.databaseContainerName = databaseContainerName(names.name, names.environment)]
  /\ UNCHANGED <<deployVars, env, dbVars, removeVars, health>>

\* listDeployments: the entry pushed for a container that was inspected.
\* parts = name.split('-'), branch is the last part, project_name the other
\* parts joined with '-' (the empty string when the name has no '-'), domain
\* is the name followed by '.' and the base domain, port is
\* parseInt(port) || 0.
listDeployments(container, port, containerId) ==
  LET lastDash == LET dashes == {i \in 1..Len(container) : container[i] = "-"}
                  IN IF dashes = {} THEN 0
                     ELSE CHOOSE i \in dashes : \A j \in dashes : j <= i
  IN [project_name |-> IF lastDash = 0 THEN <<>>
                       ELSE SubSeq(container, 1, lastDash - 1),
      branch |-> SubSeq(container, lastDash + 1, Len(container)),
      container_id |-> containerId,
      domain |-> container \o <<".">> \o Str.baseDomain,
      port |-> port]

\* The next iteration of the loop over the names docker ps printed, or the
\* return of the list when none is left.
forEachContainer(n, rest) ==
  IF rest = {} THEN {[n EXCEPT !.listPc = "done", !.listCur = <<>>, !.listPort = 0]}
  ELSE {[n EXCEPT !.listPc = "ports", !.listCur = c, !.listRest = rest \ {c},
                  !.listPort = 0] : c \in rest}

\* GET /api/deployments calls listDeployments, which starts docker ps.
ListDeployments ==
  /\ names.projectName # <<>> /\ names.listPc = "none"
  /\ names' = [names EXCEPT !.listPc = "ps"]
  /\ UNCHANGED <<deployVars, env, dbVars, removeVars, health>>

\* docker ps --format "{{.Names}}" returns the names of the running
\* containers: the container of the pair, named as deploy names it, and the
\* database containers.  The loop skips the names ending with '-postgres' and
\* starts the first docker inspect of the first one left; or the command
\* fails and the catch block returns the empty list.
ListPs ==
  /\ names.listPc = "ps"
  /\ LET suffix == <<"-">> \o Str.postgres
         endsWith(s, t) == Len(s) >= Len(t) /\ SubSeq(s, Len(s) - Len(t) + 1, Len(s)) = t
         chars(cn) == Str[cn[1]] \o <<"-">> \o Str[cn[2]] \o <<"-">> \o Str[cn[3]]
         printed ==
           {containerName(names.projectName, names.branch) :
              k \in {x \in Keys : containers[x].state = "running"}}
           \cup {chars(cn) : cn \in {x \in DbContainerNames : dbContainers[x].state = "running"}}
     IN \/ names' \in forEachContainer(names, {c \in printed : ~endsWith(c, suffix)})
        \/ names' = [names EXCEPT !.listPc = "done"]
  /\ UNCHANGED <<deployVars, env, dbVars, removeVars, health>>

\* parseInt(port) || 0 of the output of the template {{range
\* .NetworkSettings.Ports}}{{range .}}{{.HostPort}}{{end}}{{end}}: the
\* decimal numerals of the host ports of every binding written one after
\* another with nothing between them; the empty output gives NaN, hence 0.
RECURSIVE parseIntHostPorts(_, _)
parseIntHostPorts(hostPorts, n) ==
  LET scale[p \in Nat] == IF p < 10 THEN 10 ELSE 10 * scale[p \div 10]
  IN IF hostPorts = <<>> THEN n
     ELSE parseIntHostPorts(Tail(hostPorts), n * scale[Head(hostPorts)] + Head(hostPorts))

\* docker inspect <container> --format '{{range .NetworkSettings.Ports}}...'
\* returns: nothing for a container that is not running; for a running one
\* the host port of each binding of the published port, one binding on a
\* host that publishes on IPv4 alone, two (0.0.0.0 and ::) on a dual-stack
\* host; or it fails because the container is gone, and the inner catch
\* skips the container.
ListPorts ==
  /\ names.listPc = "ports"
  /\ \E k \in Keys :
       /\ containerName(names.projectName, names.branch) = names.listCur
       /\ IF containers[k].state = "absent"
            THEN names' \in forEachContainer(names, names.listRest)
            ELSE \E hostPorts \in IF containers[k].state = "running"
                                    THEN {<<containers[k].port>>,
                                          <<containers[k].port, containers[k].port>>}
                                    ELSE {<<>>} :
                   names' = [names EXCEPT !.listPc = "id",
                                          !.listPort = parseIntHostPorts(hostPorts, 0)]
  /\ UNCHANGED <<deployVars, env, dbVars, removeVars, health>>

\* docker inspect <container> --format '{{.Id}}' returns and the entry is
\* pushed; or it fails, and the inner catch skips the container.
ListId ==
  /\ names.listPc = "id"
  /\ \E k \in Keys :
       /\ containerName(names.projectName, names.branch) = names.listCur
       /\ IF containers[k].state = "absent"
            THEN names' \in forEachContainer(names, names.listRest)
            ELSE names' \in forEachContainer(
                   [names EXCEPT !.deployments = @ \cup
                      {listDeployments(names.listCur, names.listPort,
                                       containers[k].owner)}],
                   names.listRest)
  /\ UNCHANGED <<deployVars, env, dbVars, removeVars, health>>

(***************************************************************************)
(* removeDeployment (part_015 13-59) with deleteDnsRecord (part_019        *)
(* 173-199), one action per await.  The call acts on the container, image  *)
(* and proxy configuration of the key it derives; it holds no reference to *)
(* the DeploymentQueue.                                                    *)
(***************************************************************************)
InitSide ==
  /\ names = NoNames
  /\ rmCall = NoRemoval
  /\ dnsRecord = FALSE
  /\ certificate = FALSE
  /\ apiToken = FALSE
  /\ health = "none"

\* A step of removeDeployment: the queue and the rest of the engine are not
\* referenced.
removeStep(r) ==
  /\ rmCall' = r
  /\ UNCHANGED <<queueVars, nreq, dep, extBusy, envFile, histVars, emitted, env,
                 dbVars, names, certificate, apiToken, health>>

\* DELETE /api/deployments/:project/:branch calls removeDeployment, which
\* derives its names and starts docker stop.
RemoveDeployment ==
  /\ rmCall.pc = "none"
  /\ \E k \in Keys :
       removeStep([NoRemoval EXCEPT !.pc = "stop", !.key = k,
                     !.before = <<queue, buildingDeployments, activeDeployments,
                                  dnsRecord, certificate>>])
  /\ UNCHANGED <<containers, image, nginxConf, dnsRecord>>

\* docker stop <name> 2>/dev/null || true returns.
RemoveStop ==
  /\ rmCall.pc = "stop"
  /\ containers' = [containers EXCEPT ![rmCall.key] = dockerStop(@)]
  /\ removeStep([rmCall EXCEPT !.pc = "rm"])
  /\ UNCHANGED <<image, nginxConf, dnsRecord>>

\* docker rm <name> 2>/dev/null || true returns.
RemoveRm ==
  /\ rmCall.pc = "rm"
  /\ containers' = [containers EXCEPT ![rmCall.key] = dockerRm(@)]
  /\ removeStep([rmCall EXCEPT !.pc = "rmi"])
  /\ UNCHANGED <<image, nginxConf, dnsRecord>>

\* docker rmi <image>:<branch> 2>/dev/null || true returns.
RemoveRmi ==
  /\ rmCall.pc = "rmi"
  /\ image' = [image EXCEPT ![rmCall.key] = dockerRmi(@, containers[rmCall.key])]
  /\ removeStep([rmCall EXCEPT !.pc = "nginx"])
  /\ UNCHANGED <<containers, nginxConf, dnsRecord>>

\* The proxy configuration of the domain after removeNginxConfig(domain).
removeNginxConfig(conf) == NoPort

\* if (!process.env.CLOUDFLARE_API_TOKEN) return {success: false, ...}:
\* without a token deleteDnsRecord returns at once and removeDeployment
\* returns its success object; with one, getZoneId is awaited.
deleteDnsRecord(r) ==
  IF apiToken THEN [r EXCEPT !.pc = "zone", !.dns = TRUE]
  ELSE [r EXCEPT !.pc = "done", !.result = "success"]

\* await removeNginxConfig(domain) returns, and deleteDnsRecord is called; or
\* it rejects, and the catch block rethrows.
RemoveNginx ==
  /\ rmCall.pc = "nginx"
  /\ \/ /\ nginxConf' = [nginxConf EXCEPT ![rmCall.key] = removeNginxConfig(@)]
        /\ removeStep(deleteDnsRecord(rmCall))
     \/ /\ UNCHANGED nginxConf
        /\ removeStep([rmCall EXCEPT !.pc = "done", !.result = "error"])
  /\ UNCHANGED <<containers, image, dnsRecord>>

\* getZoneId returns, or rejects (request failed, zone not found).
RemoveZone ==
  /\ rmCall.pc = "zone"
  /\ \/ removeStep([rmCall EXCEPT !.pc = "record"])
     \/ removeStep([rmCall EXCEPT !.pc = "done", !.result = "error"])
  /\ UNCHANGED <<containers, image, nginxConf, dnsRecord>>

\* getDnsRecord returns: the record of the domain, whose DELETE request is
\* started; or null, when there is none or when its request failed
\* (getDnsRecord catches every error), and deleteDnsRecord returns
\* {success: true, message: 'Record not found'}.
RemoveRecord ==
  /\ rmCall.pc = "record"
  /\ \/ /\ dnsRecord
        /\ removeStep([rmCall EXCEPT !.pc = "delete"])
     \/ removeStep([rmCall EXCEPT !.pc = "done", !.result = "success"])
  /\ UNCHANGED <<containers, image, nginxConf, dnsRecord>>

\* The DELETE request returns: the record is gone; or it rejects.
RemoveDelete ==
  /\ rmCall.pc = "delete"
  /\ \/ /\ dnsRecord' = FALSE
        /\ removeStep([rmCall EXCEPT !.pc = "done", !.result = "success"])
     \/ /\ UNCHANGED dnsRecord
        /\ removeStep([rmCall EXCEPT !.pc = "done", !.result = "error"])
  /\ UNCHANGED <<containers, image, nginxConf>>

(***************************************************************************)
(* Specifications.                                                         *)
(***************************************************************************)
\* The deployment engine.
Init ==
  /\ InitDeploy
  /\ InitSide
  /\ maxConcurrent \in Capacities
  /\ extBusy \in {{}, PortBase..(PortBase + ScanLen)}
  /\ env = NoEnv
  /\ InitDb

Next ==
  \/ CleanupDockerImages
  \/ LogDeployment
  \/ QueueDeployment
  \/ ManualDeploy
  \/ \E d \in Deps : UpdBuilding(d)
  \/ \E d \in Deps : Source(d)
  \/ \E d \in Deps : Dockerfile(d)
  \/ \E d \in Deps : Stop(d)
  \/ \E d \in Deps : Rm(d)
  \/ \E d \in Deps : Rmi(d)
  \/ \E d \in Deps : Build(d)
  \/ \E d \in Deps : Lsof(d)
  \/ \E d \in Deps : WriteEnv(d)
  \/ \E d \in Deps : Run(d)
  \/ \E d \in Deps : Unlink(d)
  \/ \E d \in Deps : PollHealth(d)
  \/ \E d \in Deps : PollRunning(d)
  \/ \E d \in Deps : PollLogs(d)
  \/ \E d \in Deps : StoppedLogs(d)
  \/ \E k \in Keys : ContainerExits(k)
  \/ \E k \in Keys : ContainerRoute(k)
  \/ \E d \in Deps : Dns(d)
  \/ \E d \in Deps : Nginx(d)
  \/ \E d \in Deps : Reload(d)
  \/ \E d \in Deps : Dig(d)
  \/ \E d \in Deps : Cert(d)
  \/ \E d \in Deps : Certbot(d)
  \/ \E d \in Deps : Reload2(d)
  \/ \E d \in Deps : UpdSuccess(d)
  \/ \E d \in Deps : UpdFailed(d)

Spec == Init /\ [][Next]_vars

\* The awaits of deploy(d): the command or query each of them waits for
\* returns, and the code up to the next await runs.
DeployStep(d) ==
  \/ UpdBuilding(d) \/ Source(d) \/ Dockerfile(d) \/ Stop(d) \/ Rm(d) \/ Rmi(d)
  \/ Build(d) \/ Lsof(d) \/ WriteEnv(d) \/ Run(d) \/ Unlink(d) \/ PollHealth(d)
  \/ PollRunning(d) \/ PollLogs(d)
  \/ StoppedLogs(d) \/ Dns(d) \/ DnsZone(d) \/ DnsRecord(d) \/ DnsWrite(d)
  \/ Nginx(d) \/ Reload(d) \/ Dig(d) \/ Cert(d) \/ Certbot(d) \/ Reload2(d)
  \/ UpdSuccess(d) \/ UpdFailed(d)

\* The engine when every command and query a deployment awaits terminates:
\* as long as an await of some deployment has settled, the event loop
\* resumes one of the settled continuations.  Pushes and container crashes
\* may or may not happen.
SpecLive == Init /\ [][Next]_vars /\ WF_vars(\E d \in Deps : DeployStep(d))

\* The engine when the first deployment has started its container and
\* waitForContainer makes its first poll.
InitAtWait ==
  /\ maxConcurrent \in Capacities
  /\ queue = <<>>
  /\ buildingDeployments = {1}
  /\ processing = FALSE
  /\ activeDeployments = 1
  /\ nreq = 1
  /\ \E k \in Keys :
       dep = [d \in Deps |->
         IF d = 1 THEN [NoDeployment EXCEPT !.key = k, !.status = "building",
                                            !.pc = "wait", !.port = PortBase]
         ELSE NoDeployment]
  /\ containers = [k \in Keys |-> [owner |-> 1, port |-> PortBase, state |-> "running", img |-> TRUE]]
  /\ extBusy = {}
  /\ image = [k \in Keys |-> TRUE]
  /\ envFile = [k \in Keys |-> FALSE]
  /\ nginxConf = [k \in Keys |-> NoPort]
  /\ emitted = NoEvent
  /\ nextId = 3
  /\ qid = [d \in Deps |-> IF d = 1 THEN 2 ELSE 0]
  /\ rowId = [d \in Deps |-> IF d = 1 THEN 1 ELSE 0]
  /\ rowStatus = [d \in Deps |-> IF d = 1 THEN "queued" ELSE "none"]
  /\ rowError = [d \in Deps |-> "none"]
  /\ hookRows = {}

\* waitForContainer of the first deployment, called after docker run, on a
\* container without a health check or with one whose first status is
\* 'starting'.
InitWait ==
  /\ InitAtWait
  /\ env = NoEnv
  /\ InitDb
  /\ names = NoNames
  /\ rmCall = NoRemoval
  /\ dnsRecord = FALSE
  /\ certificate = FALSE
  /\ apiToken = FALSE
  /\ health \in {"none", "starting"}

NextWait ==
  \/ \E d \in Deps : PollHealth(d)
  \/ \E d \in Deps : PollRunning(d)
  \/ \E d \in Deps : PollLogs(d)
  \/ HealthChanges
  \/ \E d \in Deps : StoppedLogs(d)
  \/ \E k \in Keys : ContainerExits(k)
  \/ \E k \in Keys : ContainerRoute(k)

SpecWait == InitWait /\ [][NextWait]_vars

\* The three polling loops: waitForContainer and waitForDnsPropagation of a
\* deployment that has started its container, and waitForDatabase of a
\* createDatabase call that has started its container, from their first
\* polls to the end of the deployment and of the call, with and without a
\* DNS API token.  The containers may exit or be stopped and started through
\* the container routes, and the container of the deployment may be removed
\* by a removeDeployment call.
InitPolls ==
  /\ InitAtWait
  /\ names = NoNames
  /\ rmCall = NoRemoval
  /\ dnsRecord = FALSE
  /\ certificate = FALSE
  /\ apiToken \in BOOLEAN
  /\ health = "none"
  /\ env = NoEnv
  /\ registry = {}
  /\ \E name \in DbNames, environment \in Environments :
       /\ dbContainers = [cn \in DbContainerNames |->
                            IF cn = containerNameOf(name, environment)
                              THEN [state |-> "running", port |-> DbPortBase]
                              ELSE NoDbContainer]
       /\ dbDirs = {containerNameOf(name, environment)}
       /\ dbCall = [c \in DbCalls |->
            IF c = 1 THEN [NoDbCall EXCEPT !.op = "create", !.pc = "waitdb",
                             !.id = generateDatabaseId(1), !.name = name,
                             !.environment = environment, !.port = DbPortBase]
            ELSE NoDbCall]

NextPolls ==
  \/ \E d \in Deps : PollHealth(d)
  \/ \E d \in Deps : PollRunning(d)
  \/ \E d \in Deps : PollLogs(d)
  \/ \E d \in Deps : StoppedLogs(d)
  \/ \E k \in Keys : ContainerExits(k)
  \/ \E k \in Keys : ContainerRoute(k)
  \/ \E d \in Deps : Dns(d)
  \/ \E d \in Deps : DnsZone(d)
  \/ \E d \in Deps : DnsRecord(d)
  \/ \E d \in Deps : DnsWrite(d)
  \/ \E d \in Deps : Nginx(d)
  \/ \E d \in Deps : Reload(d)
  \/ \E d \in Deps : Dig(d)
  \/ \E d \in Deps : Cert(d)
  \/ \E d \in Deps : Certbot(d)
  \/ \E d \in Deps : Reload2(d)
  \/ \E d \in Deps : UpdSuccess(d)
  \/ \E d \in Deps : UpdFailed(d)
  \/ \E cn \in DbContainerNames : DbContainerExits(cn)
  \/ \E cn \in DbContainerNames : DbContainerRoute(cn)
  \/ \E c \in DbCalls : WaitForDatabase(c)
  \/ \E c \in DbCalls : PgIsReady(c)
  \/ \E c \in DbCalls : DbLogs(c)
  \/ \E c \in DbCalls : SaveDatabaseInfo(c)
  \/ RemoveDeployment
  \/ RemoveStop
  \/ RemoveRm
  \/ RemoveRmi
  \/ RemoveNginx
  \/ RemoveZone
  \/ RemoveRecord
  \/ RemoveDelete

SpecPolls == InitPolls /\ [][NextPolls]_vars

\* Environment resolution of one deployment, for every persisted and
\* source-tree variable set and every deployment context explored, while
\* the environment routes save and delete persisted variables.
InitEnv ==
  /\ InitDeploy
  /\ InitSide
  /\ maxConcurrent = 3
  /\ extBusy = {}
  /\ InitDb
  /\ \E persisted \in [EnvKeys -> EnvValues \cup {NoValue}],
        source \in [SourceKeys -> SourceValues \cup {NoValue}],
        branch \in Branches, commit \in Commits :
       env = [NoEnv EXCEPT !.pc = "fetch", !.persisted = persisted,
                           !.source = source, !.branch = branch, !.commit = commit]

NextEnv ==
  \/ SaveEnvironmentVariable
  \/ DeleteEnvironmentVariable
  \/ FetchEnv
  \/ MergeEnv
  \/ WriteEnvFile
  \/ RunWithEnvFile

SpecEnv == InitEnv /\ [][NextEnv]_vars

\* The DatabaseManager.
InitDbSpec ==
  /\ InitDeploy
  /\ InitSide
  /\ maxConcurrent = 3
  /\ extBusy = {}
  /\ env = NoEnv
  /\ InitDb \/ InitDbRegistered

NextDb ==
  \/ \E c \in DbCalls : CreateDatabase(c)
  \/ \E c \in DbCalls : DuplicateCheck(c)
  \/ \E c \in DbCalls : Ps(c)
  \/ \E c \in DbCalls : Rmf(c)
  \/ \E c \in DbCalls : Rmrf(c)
  \/ \E c \in DbCalls : DbLsof(c)
  \/ \E c \in DbCalls : Mkdir(c)
  \/ \E c \in DbCalls : DbRun(c)
  \/ \E cn \in DbContainerNames : DbContainerExits(cn)
  \/ \E cn \in DbContainerNames : DbContainerRoute(cn)
  \/ \E c \in DbCalls : WaitForDatabase(c)
  \/ \E c \in DbCalls : PgIsReady(c)
  \/ \E c \in DbCalls : DbLogs(c)
  \/ \E c \in DbCalls : SaveDatabaseInfo(c)
  \/ \E c \in DbCalls : ListDatabases(c)
  \/ \E c \in DbCalls : GetDatabase(c)
  \/ \E c \in DbCalls : DeleteDatabase(c)
  \/ \E c \in DbCalls : DelStop(c)
  \/ \E c \in DbCalls : DelRm(c)
  \/ \E c \in DbCalls : DelRow(c)
  \/ \E c \in DbCalls : StartStopRestart(c)
  \/ \E c \in DbCalls : DockerCommand(c)
  \/ \E c \in DbCalls : StatsDatabase(c)
  \/ \E c \in DbCalls : StatsSelect(c)
  \/ \E c \in DbCalls : StatsInspect(c)
  \/ \E c \in DbCalls : StatsExec(c)
  \/ \E c \in DbCalls : StatsConnections(c)
  \/ \E c \in DbCalls : StatsDocker(c)
  \/ \E c \in DbCalls : StatsUptime(c)

SpecDb == InitDbSpec /\ [][NextDb]_vars

\* The manager on a host where one instance is registered and running.
InitDbHost ==
  /\ InitDeploy
  /\ InitSide
  /\ maxConcurrent = 3
  /\ extBusy = {}
  /\ env = NoEnv
  /\ InitDbRegistered

SpecDbHost == InitDbHost /\ [][NextDb]_vars

\* The engine on a host where writes to the deployments table may fail.
NextFaulty ==
  \/ Next
  \/ \E d \in Deps : UpdBuildingFails(d)
  \/ \E d \in Deps : UpdSuccessFails(d)
  \/ \E d \in Deps : UpdFailedFails(d)

SpecFaulty == Init /\ [][NextFaulty]_vars

\* The engine with capacity 1 after deployment 1 succeeded, while deployment
\* 2 is being built (git is running) and deployment 3 waits.
InitBusy ==
  /\ maxConcurrent = 1
  /\ queue = <<3>>
  /\ buildingDeployments = {2}
  /\ processing = FALSE
  /\ activeDeployments = 1
  /\ nreq = 3
  /\ \E k \in Keys :
       /\ dep = [d \in Deps |->
            IF d = 1 THEN [NoDeployment EXCEPT !.key = k, !.status = "building",
                                               !.pc = "success"]
            ELSE IF d = 2 THEN [NoDeployment EXCEPT !.key = k,
                                  !.status = "building", !.pc = "source"]
            ELSE IF d = 3 THEN [NoDeployment EXCEPT !.key = k,
                                  !.status = "queued", !.pc = "queued"]
            ELSE NoDeployment]
  /\ containers = [k \in Keys |->
       [owner |-> 1, port |-> PortBase, state |-> "running", img |-> TRUE]]
  /\ image = [k \in Keys |-> TRUE]
  /\ envFile = [k \in Keys |-> FALSE]
  /\ nginxConf = [k \in Keys |-> PortBase]
  /\ emitted = [id |-> 4, status |-> "building", error |-> "none"]
  /\ nextId = 7
  /\ qid = [d \in Deps |-> IF d <= 3 THEN 2 * d ELSE 0]
  /\ rowId = [d \in Deps |-> IF d <= 3 THEN 2 * d - 1 ELSE 0]
  /\ rowStatus = [d \in Deps |-> IF d <= 3 THEN "queued" ELSE "none"]
  /\ rowError = [d \in Deps |-> "none"]
  /\ hookRows = {}

\* The engine after a restart of the service: nothing queued, and whatever
\* an earlier run left on the host.
InitIdle ==
  /\ maxConcurrent \in Capacities
  /\ queue = <<>>
  /\ buildingDeployments = {}
  /\ processing = FALSE
  /\ activeDeployments = 0
  /\ nreq = 0
  /\ dep = [d \in Deps |-> NoDeployment]
  /\ \E st \in {"absent", "created", "running", "exited"} :
       containers = [k \in Keys |->
         IF st = "absent" THEN NoContainer
         ELSE [owner |-> NoDep, port |-> PortBase, state |-> st, img |-> TRUE]]
  /\ image \in [Keys -> BOOLEAN]
  /\ \A k \in Keys : containers[k].state # "absent" => image[k]
  /\ envFile = [k \in Keys |-> FALSE]
  /\ nginxConf \in [Keys -> {NoPort, PortBase}]
  /\ emitted = NoEvent
  /\ nextId = 1
  /\ qid = [d \in Deps |-> 0]
  /\ rowId = [d \in Deps |-> 0]
  /\ rowStatus = [d \in Deps |-> "none"]
  /\ rowError = [d \in Deps |-> "none"]
  /\ hookRows = {}

\* The name derivations, for every project name, branch, database name and
\* environment explored, on a host where an earlier deployment of the pair
\* has left its container or none, and with or without a running database
\* container.  A removal of the deployment and the container routes run
\* beside the listing.
InitNames ==
  /\ InitIdle
  /\ maxConcurrent = 1
  /\ \A k \in Keys :
       /\ image[k] = (containers[k].state # "absent")
       /\ nginxConf[k] = IF containers[k].state = "absent" THEN NoPort ELSE PortBase
  /\ extBusy = {}
  /\ env = NoEnv
  /\ InitDb \/ InitDbRegistered
  /\ rmCall = NoRemoval
  /\ dnsRecord = FALSE
  /\ certificate = FALSE
  /\ apiToken = FALSE
  /\ health = "none"
  /\ \E projectName \in {<<"a", "p", "i">>, <<"M", "y", " ", "A", "p", "i">>,
                         <<"W", "e", "b", " ", "\t", "2">>,
                         <<"C", "a", "f", "É", " ", "\n", "1">>},
        branch \in {Str.dev, Str.production, Str.main, Str.staging},
        name \in {<<"a", "p", "p">>, <<"M", "y", "_", "D", "b", "1">>},
        environment \in {Str.production, Str.staging} :
       names = [NoNames EXCEPT !.projectName = projectName, !.branch = branch,
                               !.name = name, !.environment = environment]

NextNames ==
  \/ DeployNames
  \/ RemoveNames
  \/ DatabaseNamesStep
  \/ ListDeployments
  \/ ListPs
  \/ ListPorts
  \/ ListId
  \/ RemoveStop
  \/ RemoveRm
  \/ RemoveRmi
  \/ RemoveNginx
  \/ \E k \in Keys : ContainerRoute(k)

SpecNames == InitNames /\ [][NextNames]_vars

\* removeDeployment on every host state an earlier run can leave, with an
\* idle engine and with an engine that has one deployment building and one
\* pending, which go on while the call runs; the container routes and the
\* end of a container's process may come between any two steps.
InitRemove ==
  /\ InitBusy \/ InitIdle
  /\ extBusy = {}
  /\ env = NoEnv
  /\ InitDb
  /\ names = NoNames
  /\ rmCall = NoRemoval
  /\ dnsRecord \in BOOLEAN
  /\ certificate \in BOOLEAN
  /\ apiToken \in BOOLEAN
  /\ health = "none"

NextRemove ==
  \/ RemoveDeployment
  \/ RemoveStop
  \/ RemoveRm
  \/ RemoveRmi
  \/ RemoveNginx
  \/ RemoveZone
  \/ RemoveRecord
  \/ RemoveDelete
  \/ \E k \in Keys : ContainerRoute(k)
  \/ \E k \in Keys : ContainerExits(k)
  \/ \E d \in Deps : DeployStep(d)

SpecRemove == InitRemove /\ [][NextRemove]_vars

(***************************************************************************)
(* Properties of the deployment engine (Spec).                             *)
(***************************************************************************)
\* The deployments whose record says building and whose deploy() has not
\* ended.
Building == {d \in Deps : dep[d].status = "building" /\ dep[d].pc \notin {"success", "failed"}}

\* C1: in every reachable state the number of deployments that are
\* building, counted by activeDeployments, by the size of
\* buildingDeployments and by the records themselves, is at most
\* maxConcurrent.
BuildingWithinCapacity ==
  /\ activeDeployments <= maxConcurrent
  /\ Cardinality(buildingDeployments) <= maxConcurrent
  /\ Cardinality(Building) <= maxConcurrent

\* The capacity is used up and a request waits in the queue.
CapacityReached ==
  /\ activeDeployments = maxConcurrent
  /\ Cardinality(buildingDeployments) = maxConcurrent
  /\ Len(queue) > 0

\* C2: at any time at most one deployment is building for a
\* (project, branch) pair.
OneBuildingPerPair ==
  \A a, b \in buildingDeployments : dep[a].key = dep[b].key => a = b

\* The deployments in flight that findAvailablePort has returned a port to.
HoldsPort == {d \in Deps : dep[d].pc \in {"writeEnv", "run", "unlink", "wait",
                                           "inspectRunning", "logs",
                                           "stoppedLogs", "dns", "dnsZone", "dnsRecord",
                                           "dnsUpdate", "dnsCreate", "nginx"}}

\* C3: the ports findAvailablePort has returned to deployments that are in
\* flight are pairwise distinct.
ReturnedPortsDistinct ==
  \A a, b \in HoldsPort : a # b => dep[a].port # dep[b].port

\* C4: when a deployment is recorded as success, the container under its
\* derived name is the one this deployment created.
SuccessOwnsContainer ==
  \A d \in Deps :
    emitted.status = "success" /\ emitted.id = qid[d]
      => containers[dep[d].key].owner = d

\* C5: a deployment whose poll saw the container stopped fails with
\* 'Container stopped unexpectedly' at that poll.
StoppedFailsAtOnce ==
  [][\A d \in Deps :
       dep[d].pc = "stoppedLogs" /\ dep'[d] # dep[d]
         => dep'[d].pc = "updFailed" /\ dep'[d].err = "Container stopped unexpectedly"]_vars

\* The awaits of deploy() after the first reloadNginx.
SoftPcs == {"dig", "cert", "certbot", "reload2", "updSuccess"}

\* The awaits of setupDeploymentDns.
DnsPcs == {"dns", "dnsZone", "dnsRecord", "dnsUpdate", "dnsCreate"}

\* C6: once the container is ready and the proxy configuration is written
\* and reloaded, the deployment can only go on to success: a failed DNS
\* record setup does not stop it before, and a DNS propagation time-out, a
\* certificate failure or a failed second reload do not stop it after; the
\* DNS wait ends within maxWaitSeconds polls; deploy() then calls
\* updateDeploymentStatus(id, 'success'), emits the success event and ends.
SoftFailuresKeepSuccess ==
  [][\A d \in Deps :
       /\ dep[d].pc \in DnsPcs => dep'[d].pc \in DnsPcs \cup {"nginx"}
       /\ dep[d].pc \in SoftPcs => dep'[d].pc \in SoftPcs \cup {"success"}
       /\ dep[d].pc = "dig" /\ dep'[d] # dep[d]
            => \/ dep'[d].pc = "cert"
               \/ /\ dep'[d].pc = "dig"
                  /\ dep'[d].i = dep[d].i + 1
                  /\ dep'[d].i < maxWaitSeconds
       /\ dep[d].pc = "cert" /\ dep'[d] # dep[d] => dep'[d].pc = "certbot"
       /\ dep[d].pc = "certbot" /\ dep'[d] # dep[d]
            => dep'[d].pc \in {"reload2", "updSuccess"}
       /\ dep[d].pc = "reload2" /\ dep'[d] # dep[d] => dep'[d].pc = "updSuccess"
       /\ dep[d].pc = "updSuccess" /\ dep'[d] # dep[d]
            => /\ dep'[d].pc = "success"
               /\ emitted' = [id |-> qid[d], status |-> "success", error |-> "none"]
               /\ rowStatus' = [x \in Deps |-> IF rowId[x] = qid[d] THEN "success"
                                                ELSE rowStatus[x]]
       /\ dep[d].pc = "success" => dep'[d] = dep[d]]_vars

\* A deployment that met a failed DNS record setup, a DNS propagation
\* time-out and a certificate failure is about to record its success.
SoftFailuresMet ==
  \E d \in Deps :
    /\ dep[d].pc = "updSuccess"
    /\ {"dnsApi", "dnsTimeout", "cert"} \subseteq dep[d].soft

\* The awaits of the fatal steps, and the messages of their failures.
FatalPcs == {"source", "dockerfile", "build", "lsof", "run", "wait", "inspectRunning",
             "logs", "stoppedLogs"}

FatalErrors ==
  {"Command failed: git", "No Dockerfile found in repository",
   "Command failed: docker build", "No available ports found",
   "Command failed: docker run", "Container stopped unexpectedly",
   "Container failed to start properly - timed out waiting for health check"}

\* C7: a failure of a fatal step takes the deployment to the catch block
\* with the error message captured; from there its only step calls
\* updateDeploymentStatus(id, 'failed', {error}) with the message, emits
\* the failed event carrying the message and ends deploy(); a failed
\* deployment takes no further step, so no later pipeline step runs.
FatalFailureStops ==
  [][\A d \in Deps :
       /\ dep[d].pc \in FatalPcs /\ dep'[d] # dep[d]
            => \/ dep'[d].pc \notin {"updFailed", "failed", "success"}
               \/ dep'[d].pc = "updFailed" /\ dep'[d].err \in FatalErrors
       /\ dep[d].pc = "updFailed" /\ dep'[d] # dep[d]
            => /\ dep'[d].pc = "failed"
               /\ emitted' = [id |-> qid[d], status |-> "failed", error |-> dep[d].err]
               /\ rowStatus' = [x \in Deps |-> IF rowId[x] = qid[d] THEN "failed"
                                                ELSE rowStatus[x]]
               /\ rowError' = [x \in Deps |-> IF rowId[x] = qid[d] THEN dep[d].err
                                               ELSE rowError[x]]
       /\ dep[d].pc = "failed" => dep'[d] = dep[d]]_vars

\* A deployment has just failed because no port of the scanned range was
\* free.
NoFreePortFailed ==
  \E d \in Deps :
    /\ dep[d].pc = "failed"
    /\ emitted = [id |-> qid[d], status |-> "failed", error |-> "No available ports found"]

\* C8: the history record of a finished deployment exists and carries its
\* terminal status, with the error message if it failed.
HistoryCarriesTerminalStatus ==
  \A d \in Deps :
    dep[d].pc \in {"success", "failed"}
      => /\ rowId[d] # 0
         /\ rowStatus[d] = dep[d].pc
         /\ dep[d].pc = "failed" => rowError[d] # "none"

\* The deployments waiting in this.queue.
Pending == {queue[i] : i \in 1..Len(queue)}

\* The building deployments whose deploy() ends in the step.
Ending == {b \in Building : dep'[b].pc \in {"success", "failed"}}

\* C15: while maxConcurrent deployments are building, a queued deployment
\* stays in the queue with status queued on every step in which none of
\* them ends; the step in which one of them ends with success or failure
\* promotes the deployment at the front of the queue to building, and
\* leaves the ones behind it queued.
QueuedWaitsForSlot ==
  [][\A d \in Deps :
       dep[d].pc = "queued" /\ Cardinality(Building) = maxConcurrent
         => /\ d \in Pending
            /\ Ending = {} \/ d # Head(queue)
                 => /\ dep'[d].pc = "queued"
                    /\ dep'[d].status = "queued"
                    /\ d \in {queue'[i] : i \in 1..Len(queue')}
                    /\ d \notin buildingDeployments'
            /\ Ending # {} /\ d = Head(queue)
                 => /\ dep'[d].pc = "updBuilding"
                    /\ dep'[d].status = "building"
                    /\ d \in buildingDeployments'
                    /\ d \notin {queue'[i] : i \in 1..Len(queue')}]_vars

\* A deployment has just ended and its handler promoted a queued
\* deployment into the slot it gave back.
PromotedOnCompletion ==
  /\ emitted.status \in {"success", "failed"}
  /\ activeDeployments = maxConcurrent
  /\ \E d \in Deps : dep[d].pc = "updBuilding" /\ d \in buildingDeployments

\* The deployments whose deploy() has been called.
Dispatched == {d \in Deps : dep[d].pc \notin {"none", "queued"}}

\* C16: deployments are dispatched in the order of their queueDeployment
\* calls (the deployments are numbered in that order): a deployment is
\* never dispatched while one enqueued before it waits, and the queue holds
\* the waiting deployments in the order of their calls.
FifoDispatch ==
  /\ \A a, b \in Deps : a < b /\ b \in Dispatched => a \in Dispatched
  /\ \A i, j \in 1..Len(queue) : i < j => queue[i] < queue[j]

\* Two deployments waited together, and a completion has just promoted
\* the earlier one while the later one still waits.
EarlierPromotedFirst ==
  /\ emitted.status \in {"success", "failed"}
  /\ \E a, b \in Deps : /\ a < b
                         /\ dep[a].pc = "updBuilding"
                         /\ dep[b].pc = "queued"

\* C17: a deployment is dispatched once: after its deploy() was called it
\* is never in the queue again and deploy() is not called for it again;
\* after it ended with success or failure its record does not change and
\* it is not tracked as building; every queueDeployment call gets an id no
\* earlier call got.
DispatchedOnce ==
  [][\A d \in Deps :
       /\ d \in Dispatched
            => /\ d \notin {queue'[i] : i \in 1..Len(queue')}
               /\ dep'[d].pc \notin {"none", "queued"}
               /\ dep[d].pc # "updBuilding" => dep'[d].pc # "updBuilding"
       /\ dep[d].pc \in {"success", "failed"}
            => dep'[d] = dep[d] /\ d \notin buildingDeployments'
       /\ dep[d].pc = "none" /\ dep'[d].pc # "none"
            => \A x \in Deps \ {d} : qid'[d] # qid[x]]_vars

\* A deployment failed, the scheduler ran after it and after a later
\* deployment that succeeded, and nothing is queued or building any more.
FailedNotRetried ==
  /\ \E d, e \in Deps : d < e /\ dep[d].pc = "failed" /\ dep[e].pc = "success"
  /\ queue = <<>>
  /\ activeDeployments = 0
  /\ buildingDeployments = {}

\* The awaits of deploy() from its clean-up of the old container up to the
\* return of waitForContainer, which declares the new container healthy.
BeforeHealthy == {"stop", "rm", "rmi", "build", "lsof", "writeEnv", "run", "unlink",
                  "wait", "inspectRunning", "logs", "stoppedLogs"}

\* C18: a step of a redeploy that has not yet seen its own container
\* healthy leaves the running container of the deployment that succeeded
\* before it running.
OldContainerKeptRunning ==
  [][\A d \in Deps :
       /\ dep[d].pc \in BeforeHealthy
       /\ dep'[d] # dep[d]
       /\ containers[dep[d].key].state = "running"
       /\ containers[dep[d].key].owner # d
       /\ dep[containers[dep[d].key].owner].pc = "success"
       => /\ containers'[dep[d].key].state = "running"
          /\ containers'[dep[d].key].owner = containers[dep[d].key].owner]_vars

\* The deployments that have written the temporary env file and have not
\* yet come back from deleting it.
WroteEnvFile == {d \in Deps : dep[d].pc \in {"run", "unlink"}}

\* C19: the temporary env file of a container name exists only while a
\* deployment is between writing it and the return of its deletion: once
\* the container start has come back, with or without an error, and the
\* deployment has moved on, the file is gone.
EnvFileDeleted ==
  \A k \in Keys : envFile[k] => \E d \in WroteEnvFile : dep[d].key = k

\* C21: ensureSSLCertificate is awaited only by a deployment whose
\* waitForDnsPropagation saw the domain resolve: a deployment whose wait
\* ended by time-out never starts it.
CertOnlyAfterResolve ==
  \A d \in Deps : dep[d].pc \in {"cert", "certbot"} => "dnsTimeout" \notin dep[d].soft

\* C26: every accepted deployment is in the pending list exactly while it is
\* queued, in the building set exactly while its deploy() runs, and in
\* neither once it has ended, never in both and never twice; getQueueStatus
\* lists the pending and the building deployments once each and reports the
\* length of the pending list, the size of the building set, the active
\* counter and the capacity.
QueueStatusReflectsQueue ==
  LET st == getQueueStatus
      listed(d) == {i \in 1..Len(st.queue) : st.queue[i] = d}
      waiting(d) == {i \in 1..Len(queue) : queue[i] = d}
  IN /\ \A d \in Deps :
          /\ Cardinality(waiting(d)) = IF dep[d].pc = "queued" THEN 1 ELSE 0
          /\ d \in buildingDeployments <=>
               dep[d].pc \notin {"none", "queued", "success", "failed"}
          /\ ~(waiting(d) # {} /\ d \in buildingDeployments)
          /\ Cardinality(listed(d)) =
               IF waiting(d) # {} \/ d \in buildingDeployments THEN 1 ELSE 0
     /\ st.queued = Len(queue)
     /\ st.building = Cardinality(buildingDeployments)
     /\ st.active = activeDeployments
     /\ st.maxConcurrent = maxConcurrent
     /\ st.queued + st.building = Len(st.queue)

\* One deployment has ended, one is being built and one waits: the status
\* reports one queued, one building, one active.
StatusWithAllThree ==
  /\ \E d \in Deps : dep[d].pc \in {"success", "failed"}
  /\ getQueueStatus.queued = 1 /\ getQueueStatus.building = 1
  /\ getQueueStatus.active = 1 /\ Len(getQueueStatus.queue) = 2

\* C27: when every command terminates, a point is reached from which on
\* every deployment that was enqueued has been dispatched and its deploy()
\* has ended with success or failure, and the pending list and the building
\* set are empty: no deployment stays behind in the queue.  (At most
\* MaxDeploys deployments are enqueued, and an ended deployment stays ended.)
EveryDeploymentEnds ==
  <>[](/\ \A d \in Deps : nreq >= d => dep[d].pc \in {"success", "failed"}
       /\ queue = <<>> /\ buildingDeployments = {} /\ activeDeployments = 0)

\* Three deployments have ended, the last of which had to wait in the queue
\* behind the others.
AllEndedAfterWaiting ==
  /\ nreq = MaxDeploys
  /\ \A d \in 1..MaxDeploys : dep[d].pc \in {"success", "failed"}
  /\ queue = <<>> /\ buildingDeployments = {}
  /\ maxConcurrent = 1

\* C30: when two deployments of the same project and branch are building at
\* the same time, then once both have ended (and no third deployment has
\* been dispatched) the container under their name was started by the one
\* dispatched later, and that one ended with success.  Stated for the
\* overlaps in which the later deployment has cleaned up, built its image
\* and is starting its container while the container started by the earlier
\* one is running: nothing of its own has failed up to there.
LastWriterWins ==
  \A a \in Deps : \A b \in Deps :
    [](/\ a < b /\ {a, b} \subseteq buildingDeployments
       /\ dep[a].key = dep[b].key
       /\ dep[b].pc = "run"
       /\ containers[dep[b].key].state = "running"
       /\ containers[dep[b].key].owner = a
       => [](/\ dep[a].pc \in {"success", "failed"}
             /\ dep[b].pc \in {"success", "failed"}
             /\ \A x \in Deps \ {a, b} : dep[x].pc \in {"none", "queued"}
             => /\ dep[b].pc = "success"
                /\ containers[dep[b].key].owner = b))

\* The awaits of a deploy() that meets no failure, in the order of the code.
PipelineOrder ==
  <<"updBuilding", "source", "dockerfile", "stop", "rm", "rmi", "build", "lsof",
    "writeEnv", "run", "unlink", "wait", "dns", "dnsZone", "dnsRecord", "dnsCreate",
    "nginx", "reload", "dig", "cert", "certbot", "reload2", "updSuccess", "success">>

\* The awaits of the loop of waitForContainer.
WaitPcs == {"wait", "inspectRunning", "logs", "stoppedLogs"}

\* The position of an await in that order (the awaits of a poll of
\* waitForContainer stand where "wait" does, "dnsUpdate" stands where
\* "dnsCreate" does); 0 for a deployment that is not in the pipeline.
Position(pc) ==
  LET at == IF pc \in WaitPcs THEN "wait"
            ELSE IF pc = "dnsUpdate" THEN "dnsCreate" ELSE pc
  IN IF \E i \in 1..Len(PipelineOrder) : PipelineOrder[i] = at
       THEN CHOOSE i \in 1..Len(PipelineOrder) : PipelineOrder[i] = at
       ELSE 0

\* C31: within one deployment the steps occur in pipeline order.  A
\* deployment enters the pipeline at its first await and moves from an await
\* to the next one of the code's order only (a poll loop stays at its
\* await, setupDeploymentDns may return before its last request, a failed
\* certificate request skips the second reload) or to the catch block; so
\* docker stop, docker rm and docker rmi come before the build, the port
\* scan after it, the proxy configuration is written by a
\* deployment whose waitForContainer has returned and with the port it was
\* allocated, the certificate is requested after the configuration was
\* written and reloaded, an image appears only at a build step, and the
\* success event is emitted only by a deployment that went through all of
\* these.
PipelineInOrder ==
  [][/\ \A d \in Deps :
          dep'[d].pc # dep[d].pc =>
            \/ dep[d].pc \in {"none", "queued"}
                 /\ dep'[d].pc \in {"queued", "updBuilding"}
            \/ Position(dep[d].pc) > 0 /\ Position(dep'[d].pc) > 0
                 /\ \/ Position(dep'[d].pc) = Position(dep[d].pc) + 1
                    \/ dep[d].pc \in WaitPcs /\ dep'[d].pc \in WaitPcs
                    \/ dep[d].pc \in {"dns", "dnsZone"} /\ dep'[d].pc = "nginx"
                    \/ dep[d].pc = "certbot" /\ dep'[d].pc = "updSuccess"
            \/ /\ Position(dep[d].pc) \in Position("source")..Position("reload")
               /\ dep[d].pc \notin DnsPcs
               /\ dep'[d].pc = "updFailed"
            \/ dep[d].pc = "updFailed" /\ dep'[d].pc = "failed"
     /\ \A k \in Keys :
          /\ image'[k] /\ ~image[k]
               => \E d \in Deps : dep[d].key = k /\ dep[d].pc = "build"
          /\ nginxConf'[k] # nginxConf[k]
               => \E d \in Deps : /\ dep[d].key = k /\ dep[d].pc = "nginx"
                                  /\ dep'[d].pc = "reload"
                                  /\ nginxConf'[k] = dep[d].port
     /\ emitted'.status = "success"
          => \E d \in Deps : /\ dep[d].pc = "updSuccess" /\ dep'[d].pc = "success"
                             /\ emitted'.id = qid[d]]_vars

\* A redeploy went through the whole pipeline: it replaced the container of
\* an earlier deployment, its proxy configuration is written and its
\* success event is emitted.
PipelineCompleted ==
  \E d \in Deps :
    /\ d > 1 /\ dep[1].pc = "success"
    /\ dep[d].pc = "success" /\ emitted.status = "success" /\ emitted.id = qid[d]
    /\ containers[dep[d].key].owner = d /\ containers[dep[d].key].state = "running"
    /\ image[dep[d].key]
    /\ nginxConf[dep[d].key] = containers[dep[d].key].port

\* C32: a deployment whose repository has no Dockerfile fails fast.  No step
\* of a deployment up to and including the Dockerfile check touches the
\* containers, the images, the env files, the proxy configuration or a port;
\* the failed check takes the deployment to the catch block with the
\* error 'No Dockerfile found in repository' and without a port; from there
\* it only records the failure and ends, again touching none of them, and
\* it does nothing afterwards.
MissingDockerfileFailsFast ==
  [][\A d \in Deps :
       dep'[d] # dep[d] =>
         /\ dep[d].pc \in {"updBuilding", "source", "dockerfile"}
              => /\ UNCHANGED worldVars
                 /\ dep'[d].port = NoPort
         /\ dep[d].pc = "dockerfile"
              => \/ dep'[d].pc = "stop"
                 \/ /\ dep'[d].pc = "updFailed"
                    /\ dep'[d].err = "No Dockerfile found in repository"
         /\ dep[d].err = "No Dockerfile found in repository"
              => /\ dep[d].pc = "updFailed" /\ dep'[d].pc = "failed"
                 /\ UNCHANGED worldVars
                 /\ emitted' = [id |-> qid[d], status |-> "failed",
                                error |-> "No Dockerfile found in repository"]
         /\ dep[d].pc # "failed"]_vars

\* A redeploy failed for its missing Dockerfile while the container and the
\* image of the earlier deployment are in place and the container runs.
MissingDockerfileKeptOld ==
  \E d \in Deps :
    /\ d > 1 /\ dep[d].pc = "failed"
    /\ emitted = [id |-> qid[d], status |-> "failed",
                  error |-> "No Dockerfile found in repository"]
    /\ dep[1].pc = "success"
    /\ containers[dep[d].key] = [owner |-> 1, port |-> PortBase, state |-> "running", img |-> TRUE]
    /\ image[dep[d].key] /\ ~envFile[dep[d].key]
    /\ nginxConf[dep[d].key] = PortBase

\* A later deployment of the same (project, branch) has been dispatched:
\* deployment a is superseded.
Superseded(a) ==
  \E b \in Deps : /\ b > a /\ dep[b].key = dep[a].key
                  /\ dep[b].pc \notin {"none", "queued"}

\* C35: a polling loop stops at the next poll boundary once its deployment
\* is superseded: from a state in which waitForContainer of a superseded
\* deployment is at poll n, it never gets beyond poll n + 1.
PollsStopWhenSuperseded ==
  \A a \in Deps : \A n \in 0..(maxAttempts - 1) :
    [](Superseded(a) /\ dep[a].pc = "wait" /\ dep[a].i = n
         => [](dep[a].pc = "wait" => dep[a].i <= n + 1))

\* The deployments whose deploy() is called in this step, and those whose
\* deploy() ends in it.
DispatchedNow == {d \in Deps : dep[d].pc \in {"none", "queued"} /\ dep'[d].pc = "updBuilding"}
SettledNow ==
  {d \in Deps : dep[d].pc \notin {"none", "queued", "success", "failed"}
                /\ dep'[d].pc \in {"success", "failed"}}

\* C36: before and after every step activeDeployments is the number of
\* entries of buildingDeployments and is not negative; a step adds to the
\* building set exactly the deployments it dispatches and removes exactly
\* those whose deploy() ends in it, and the counter moves by one for each of
\* them; a deployment of the set is one whose deploy() runs; and a
\* deployment that has ended takes no further step, so it is counted down
\* once.  Writes to the deployments table may fail at every status update.
ActiveCountsBuilding ==
  [][/\ activeDeployments = Cardinality(buildingDeployments)
     /\ activeDeployments >= 0
     /\ activeDeployments' = Cardinality(buildingDeployments')
     /\ activeDeployments' >= 0
     /\ buildingDeployments' = (buildingDeployments \ SettledNow) \cup DispatchedNow
     /\ activeDeployments' = activeDeployments + Cardinality(DispatchedNow)
                               - Cardinality(SettledNow)
     /\ DispatchedNow \cap buildingDeployments = {}
     /\ SettledNow \subseteq buildingDeployments
     /\ buildingDeployments' =
          {d \in Deps : dep'[d].pc \notin {"none", "queued", "success", "failed"}}
     /\ \A d \in Deps : dep[d].pc \in {"success", "failed"} => dep'[d] = dep[d]]_vars

\* The only deployment requested built its image, failed before it started
\* a container, and the update recording the failure was rejected (no
\* failed event was emitted): it has left the building set and the counter
\* is back at 0.
SettledAfterLostUpdate ==
  /\ nreq = 1 /\ dep[1].pc = "failed"
  /\ image[dep[1].key] /\ containers[dep[1].key].state = "absent"
  /\ emitted = NoEvent
  /\ buildingDeployments = {} /\ activeDeployments = 0

\* The 'deployment:status' event of deployment d with status st.
StatusEvent(d, st) ==
  emitted'.id = qid[d] /\ emitted'.status = st /\ emitted' # NoEvent

\* C37: the status updates and events of a deployment follow queued ->
\* building -> one of success or failed.  The building update returns and
\* the building event is emitted at the first step of deploy(), which a
\* deployment takes once, coming from the queue; a terminal update returns
\* and its event is emitted only at the step that ends deploy(), after that
\* first step, success at the end of the try block and failed at the end
\* of the catch block, and deploy() ends with exactly that one; no other
\* step emits an event of the deployment or changes its row; and after the
\* terminal step the deployment takes no step, so no status follows it.
StatusLifecycle ==
  [][\A d \in Deps :
       /\ dep'[d].pc = "updBuilding" /\ dep[d].pc # "updBuilding"
            => dep[d].pc \in {"none", "queued"} /\ dep'[d].status = "building"
       /\ dep[d].pc = "updBuilding" /\ dep'[d] # dep[d]
            => /\ dep'[d].pc = "source"
               /\ StatusEvent(d, "building")
               /\ rowStatus' = [x \in Deps |-> IF rowId[x] = qid[d] THEN "building"
                                                ELSE rowStatus[x]]
       /\ dep'[d].pc = "success" /\ dep[d].pc # "success"
            => /\ dep[d].pc = "updSuccess"
               /\ StatusEvent(d, "success")
               /\ rowStatus' = [x \in Deps |-> IF rowId[x] = qid[d] THEN "success"
                                                ELSE rowStatus[x]]
       /\ dep'[d].pc = "failed" /\ dep[d].pc # "failed"
            => /\ dep[d].pc = "updFailed"
               /\ StatusEvent(d, "failed")
               /\ rowStatus' = [x \in Deps |-> IF rowId[x] = qid[d] THEN "failed"
                                                ELSE rowStatus[x]]
       /\ dep[d].pc \in {"updSuccess", "updFailed"} /\ dep'[d] # dep[d]
            => dep'[d].pc = (IF dep[d].pc = "updSuccess" THEN "success" ELSE "failed")
       /\ dep'[d].pc \in {"updSuccess", "updFailed"} /\ dep[d].pc # dep'[d].pc
            => dep[d].pc \notin {"none", "queued", "updBuilding", "updSuccess",
                                 "updFailed", "success", "failed"}
       /\ qid[d] # 0 /\ emitted'.id = qid[d]
            => \/ dep[d].pc = "updBuilding" /\ emitted'.status = "building"
               \/ dep[d].pc = "updSuccess" /\ emitted'.status = "success"
               \/ dep[d].pc = "updFailed" /\ emitted'.status = "failed"
       /\ dep[d].pc \in {"success", "failed"}
            => dep'[d] = dep[d] /\ rowStatus'[d] = rowStatus[d]]_vars

\* The first deployment ended with its success event and the second one,
\* which went as far as its container wait, with its failed event.
TerminalEventsOfTwo ==
  /\ dep[1].pc = "success" /\ dep[2].pc = "failed"
  /\ emitted.id = qid[2] /\ emitted.status = "failed"
  /\ emitted.error = "Container stopped unexpectedly"

\* C38: when every deployment requested has ended and at least one of them
\* was recorded as success, the proxy configuration of the domain targets
\* the host port the container running under the derived name is bound to.
ProxyTargetsRunningContainer ==
  \A k \in Keys :
    /\ \A d \in Deps : dep[d].pc \in {"none", "success", "failed"}
    /\ \E d \in Deps : dep[d].key = k /\ dep[d].pc = "success"
    /\ containers[k].state = "running"
    => nginxConf[k] = containers[k].port

(***************************************************************************)
(* Properties of the environment resolution (SpecEnv).                     *)
(***************************************************************************)
\* The persisted value of key k that the deployment read: the value of its
\* row among the rows getEnvironmentVariables returned, or none.
persistedValue(k) ==
  LET rows == {i \in 1..Len(env.vars) : env.vars[i].key = k}
  IN IF rows = {} THEN NoValue ELSE env.vars[CHOOSE i \in rows : TRUE].value

\* C9: the environment the container is started with gives a persisted
\* variable precedence over the source tree's variable of the same name,
\* and holds DEPLOY_BRANCH, DEPLOY_COMMIT and DEPLOY_DOMAIN with the
\* deployment's branch, commit and domain, whatever variables were persisted
\* when the deployment read them.
EffectiveEnvResolved ==
  env.pc = "running"
    => /\ \A k \in SourceKeys \ ReservedKeys :
            persistedValue(k) # NoValue /\ env.source[k] # NoValue
              => env.containerEnv[k] = <<persistedValue(k)[1].text>>
       /\ env.containerEnv["DEPLOY_BRANCH"] = <<env.branch>>
       /\ env.containerEnv["DEPLOY_COMMIT"] = <<env.commit>>
       /\ env.containerEnv["DEPLOY_DOMAIN"] = <<domainOf(env.branch)>>

\* C20: a variable of the source tree's .env file whose key is not
\* persisted for the project and branch when the deployment reads the
\* persisted variables is in the environment the container is started with,
\* with the file's value.
SourceDefaultsMerged ==
  env.pc = "running"
    => \A k \in SourceKeys \ ReservedKeys :
         env.source[k] # NoValue /\ persistedValue(k) = NoValue
           => env.containerEnv[k] = <<env.source[k][1].text>>

(***************************************************************************)
(* Properties of the DatabaseManager (SpecDb).                             *)
(***************************************************************************)
\* C10: createDatabase called for a (name, environment) pair that is
\* registered finds the row, fails with the duplicate error as its only
\* step, and that step changes no container, no directory, no port and no
\* row; the failed call does nothing afterwards.
DuplicateCreateRejected ==
  [][\A c \in DbCalls :
       /\ /\ dbCall[c].pc = "none"
          /\ dbCall'[c].op = "create"
          /\ \E row \in registry : /\ row.name = dbCall'[c].name
                                   /\ row.environment = dbCall'[c].environment
          => dbCall'[c].pc = "lookup" /\ dbCall'[c].existingDb
       /\ dbCall[c].pc = "lookup" /\ dbCall[c].existingDb /\ dbCall'[c] # dbCall[c]
            => /\ dbCall'[c].pc = "failed"
               /\ dbCall'[c].err = "already exists"
               /\ dbCall'[c].port = NoPort
               /\ UNCHANGED <<registry, dbContainers, dbDirs>>
       /\ dbCall[c].pc = "failed" => dbCall'[c] = dbCall[c]]_vars

\* A createDatabase call for a registered pair has been rejected.
DuplicateRejected ==
  \E c \in DbCalls :
    /\ dbCall[c].op = "create"
    /\ dbCall[c].pc = "failed"
    /\ dbCall[c].err = "already exists"
    /\ getDatabaseByName(dbCall[c].name, dbCall[c].environment) # {}

\* The passwords in the value call c returned to its route, which sends it
\* as the response.
disclosed(c) ==
  {row.password : row \in {x \in dbCall[c].result : "password" \in DOMAIN x}}

\* C11: the password of an instance is returned only by the createDatabase
\* call that generated it: no listDatabases, getDatabaseById, stats, start,
\* stop, restart or delete call returns a password.
PasswordOnlyAtCreation ==
  \A c \in DbCalls :
    /\ dbCall[c].op # "create" => disclosed(c) = {}
    /\ dbCall[c].op = "create" => disclosed(c) \subseteq {generatePassword(c)}

\* C12: a poll of waitForDatabase that finds the container not running
\* makes createDatabase fail at that poll.
NotRunningIsFatal ==
  [][\A c \in DbCalls :
       /\ dbCall[c].pc = "dblogs"
       /\ dbCall'[c] # dbCall[c]
       => dbCall'[c].pc = "failed"]_vars

\* The createDatabase calls that passed the duplicate check, and those
\* findAvailablePort has returned a port to: the calls in flight and the
\* calls that returned whose instance is still registered.
PassedCheck ==
  {c \in DbCalls :
     /\ dbCall[c].op = "create"
     /\ \/ dbCall[c].pc \in {"ps", "rmf", "rmrf", "lsof", "mkdir", "run", "waitdb",
                            "isready", "dblogs", "save"}
        \/ dbCall[c].pc = "done" /\ getDatabaseById(dbCall[c].id) # {}}

HoldsDbPort == {c \in PassedCheck : dbCall[c].pc \in {"mkdir", "run", "waitdb",
                                                      "isready", "dblogs", "save", "done"}}

\* The container names of registered instances and of containers a
\* createDatabase call in flight has started.
StartedContainers ==
  {row.container_name : row \in registry} \cup
  {containerNameOf(dbCall[c].name, dbCall[c].environment) :
     c \in {x \in DbCalls : dbCall[x].pc \in {"waitdb", "isready", "dblogs", "save"}}}

\* C13: createDatabase calls interleaved at their awaits hold pairwise
\* distinct host ports and container names, remove no container or
\* directory of a registered instance or of another call, and register the
\* instance once its container is ready.
ConcurrentCreatesSafe ==
  [][/\ \A a, b \in HoldsDbPort : a # b => dbCall[a].port # dbCall[b].port
     /\ \A a, b \in PassedCheck :
          a # b => containerNameOf(dbCall[a].name, dbCall[a].environment)
                     # containerNameOf(dbCall[b].name, dbCall[b].environment)
     /\ \A c \in DbCalls :
          /\ dbCall[c].pc \in {"rmf", "rmrf"} /\ dbCall'[c] # dbCall[c]
               => containerNameOf(dbCall[c].name, dbCall[c].environment)
                    \notin StartedContainers
          /\ dbCall[c].pc = "save" /\ dbCall'[c] # dbCall[c]
               => /\ dbCall'[c].pc = "done"
                  /\ \E row \in registry' : row.id = dbCall[c].id]_vars

\* The operations that take the id of an instance.
IdOps == {"delete", "stats"} \cup ContainerOps

\* C14: when deleteDatabase(id) returns, the container of the instance is
\* gone and no row has the id; delete, start, stop, restart and stats called
\* with an id that has no row fail with 'Database not found' as their only
\* step, without a container command; getDatabaseStats for a container name
\* without a row fails with not-found.
DeleteDeregisters ==
  [][\A c \in DbCalls :
       /\ dbCall[c].pc = "delRow" /\ dbCall'[c].pc = "done"
            => /\ dbContainers'[containerNameOf(dbCall[c].name,
                                                dbCall[c].environment)].state = "absent"
               /\ \A row \in registry' : row.id # dbCall[c].id
       /\ /\ dbCall[c].pc = "none"
          /\ dbCall'[c].op \in IdOps
          /\ getDatabaseById(dbCall'[c].id) = {}
          => /\ dbCall'[c].pc = "failed"
             /\ dbCall'[c].err = "Database not found"
             /\ UNCHANGED <<registry, dbContainers, dbDirs>>
       /\ /\ dbCall[c].pc = "statsSelect"
          /\ dbCall'[c] # dbCall[c]
          /\ \A row \in registry :
               row.container_name # containerNameOf(dbCall[c].name, dbCall[c].environment)
          => /\ dbCall'[c].pc = "failed"
             /\ dbCall'[c].err = "Database not found for container"
       /\ dbCall[c].pc = "failed" => dbCall'[c] = dbCall[c]]_vars

(***************************************************************************)
(* Properties of removeDeployment (SpecRemove).                            *)
(***************************************************************************)
\* C23: the step in which removeDeployment returns its success object
\* leaves no container, no image and no proxy configuration under the
\* derived name (when no deployment was pending or building at the call, so
\* that none can have created them anew); and no step of the call changes
\* the pending list, the building set, the active counter or the
\* certificate, creates a DNS record, or reaches a request of the DNS
\* deletion or deletes the record without the DNS API being configured.
RemovalFrame ==
  [][LET returns == /\ rmCall.pc # "done"
                    /\ rmCall'.pc = "done"
                    /\ rmCall'.result = "success"
         idle == rmCall.before[1] = <<>> /\ rmCall.before[2] = {}
     IN /\ (returns /\ idle) =>
             /\ containers'[rmCall.key] = NoContainer
             /\ ~image'[rmCall.key]
             /\ nginxConf'[rmCall.key] = NoPort
        /\ (rmCall' # rmCall) =>
             /\ queue' = queue
             /\ buildingDeployments' = buildingDeployments
             /\ activeDeployments' = activeDeployments
             /\ certificate' = certificate
             /\ (dnsRecord' # dnsRecord) => (apiToken /\ ~dnsRecord')
             /\ (rmCall'.pc \in {"zone", "record", "delete"}) => apiToken]_vars

\* C24: no step of a deleteDatabase call removes (or creates) a storage
\* directory: from the call to its return the set of existing volume paths
\* is what the other calls make it.
DeleteKeepsStorage ==
  [][\A c \in DOMAIN dbCall :
       dbCall'[c].op = "delete" /\ dbCall'[c] # dbCall[c] => dbDirs' = dbDirs]_vars

\* A deleteDatabase call has returned: the row and the container of the
\* instance are gone, its storage directory is still there.
DeletedStorageKept ==
  \E c \in DOMAIN dbCall :
    LET cn == containerNameOf(dbCall[c].name, dbCall[c].environment) IN
      /\ dbCall[c].op = "delete" /\ dbCall[c].pc = "done" /\ dbCall[c].err = "none"
      /\ getDatabaseById(dbCall[c].id) = {}
      /\ dbContainers[cn] = NoDbContainer
      /\ cn \in dbDirs

\* C25: when the docker inspect of getDatabaseStats finds the container of a
\* registered instance not running, the call returns the 'stopped'
\* statistics (size 'N/A', 0 connections, uptime 'N/A') without an error and
\* without running a query in the container.
StoppedStatsDegraded ==
  [][\A c \in DOMAIN dbCall :
       LET cn == containerNameOf(dbCall[c].name, dbCall[c].environment) IN
         /\ dbCall[c].pc = "statsInspect" /\ dbCall'[c] # dbCall[c]
         /\ dbContainers[cn].state \in {"exited", "created"}
         => /\ dbCall'[c].pc = "done" /\ dbCall'[c].err = "none"
            /\ dbCall'[c].result = {[status |-> "stopped", size |-> "N/A",
                                     connections |-> 0, uptime |-> "N/A"]}]_vars

\* A stats call on a registered instance, stopped by an earlier stopDatabase,
\* has returned the 'stopped' statistics.
StoppedStatsReturned ==
  \E c \in DOMAIN dbCall :
    LET cn == containerNameOf(dbCall[c].name, dbCall[c].environment) IN
      /\ dbCall[c].op = "stats" /\ dbCall[c].pc = "done" /\ dbCall[c].err = "none"
      /\ \E row \in dbCall[c].result : row.status = "stopped"
      /\ dbContainers[cn].state = "exited"
      /\ \E row \in registry : row.container_name = cn
      /\ \E x \in DOMAIN dbCall : x # c /\ dbCall[x].op = "stop" /\ dbCall[x].pc = "done"

(***************************************************************************)
(* Properties of waitForContainer (SpecWait).                              *)
(***************************************************************************)
\* C28: waitForContainer returns for a container that declares a health
\* check (its Health.Status is not 'none') only when that status is
\* 'healthy': while the status is 'starting' or 'unhealthy' neither the
\* running time nor the log line makes it return.
ExplicitHealthDecides ==
  [][\A d \in Deps :
       /\ dep[d].pc \in WaitPcs
       /\ dep'[d].pc = "dns"
       /\ health # "none"
       => health = "healthy"]_vars

\* C29: the forced cleanup of createDatabase (docker rm -f, rm -rf) removes
\* a container or a storage directory only when no registered instance has
\* that container name.
CleanupOnlyLeftovers ==
  [][\A c \in DOMAIN dbCall :
       LET cn == containerNameOf(dbCall[c].name, dbCall[c].environment) IN
         /\ dbCall[c].op = "create" /\ dbCall[c].pc \in {"rmf", "rmrf"}
         /\ dbCall'[c] # dbCall[c]
         /\ \/ dbContainers'[cn] # dbContainers[cn]
            \/ dbDirs' # dbDirs
         => ~ \E row \in registry : row.container_name = cn]_vars

\* C33: in every reachable state no two rows of the databases table have
\* the same (name, environment) pair and no two have the same container
\* name (nor the same id).
RegisteredInstancesUnique ==
  \A a, b \in registry :
    a # b => /\ <<a.name, a.environment>> # <<b.name, b.environment>>
             /\ a.container_name # b.container_name
             /\ a.id # b.id

\* Two createDatabase calls for names that differ only in case ran
\* interleaved in one environment and both reached the INSERT: one is
\* registered, the other was refused by the UNIQUE column.
CollidingCreateRefused ==
  \E c, x \in DbCalls :
    /\ dbCall[c].op = "create" /\ dbCall[x].op = "create"
    /\ dbCall[c].name # dbCall[x].name
    /\ dbCall[c].environment = dbCall[x].environment
    /\ dbCall[c].pc = "done"
    /\ \E row \in registry : row.id = dbCall[c].id
    /\ dbCall[x].pc = "failed" /\ dbCall[x].err = "SQLITE_CONSTRAINT"

(***************************************************************************)
(* Properties of the polling loops (SpecPolls).                            *)
(***************************************************************************)
\* The awaits of the loop of waitForDatabase.
WaitDbPcs == {"waitdb", "isready", "dblogs"}

\* C34: the polling loops are bounded.  waitForContainer makes its polls
\* with i = 0, 1, ... below maxAttempts, waitForDnsPropagation below
\* maxWaitSeconds, waitForDatabase below its maxAttempts; a poll either ends
\* the loop (the function returns or throws) or is followed by the poll
\* with the next i; the loop that used up its polls ends with the time-out
\* (a thrown error for the two container waits, the return of false for
\* the DNS wait); and a loop is entered only by the step that calls the
\* function, with i = 0, never again after it has ended.
PollingLoopsBounded ==
  [][/\ \A d \in Deps :
          /\ dep[d].pc \in WaitPcs => dep[d].i < maxAttempts
          /\ dep[d].pc = "dig" => dep[d].i < maxWaitSeconds
          /\ dep[d].pc \in WaitPcs /\ dep'[d] # dep[d] =>
               \/ dep'[d].pc \in WaitPcs
                    /\ dep'[d].i = (IF dep'[d].pc = "wait" THEN dep[d].i + 1
                                    ELSE dep[d].i)
                    /\ dep'[d].i < maxAttempts
               \/ dep'[d].pc = "dns"
               \/ /\ dep'[d].pc = "updFailed"
                  /\ \/ dep'[d].err = "Container stopped unexpectedly"
                     \/ /\ dep[d].i = maxAttempts - 1
                        /\ dep'[d].err = "Container failed to start properly - timed out waiting for health check"
          /\ dep[d].pc = "dig" /\ dep'[d] # dep[d] =>
               \/ dep'[d].pc = "dig" /\ dep'[d].i = dep[d].i + 1
                    /\ dep'[d].i < maxWaitSeconds
               \/ dep'[d].pc = "cert"
                    /\ ("dnsTimeout" \in dep'[d].soft => dep[d].i = maxWaitSeconds - 1)
          /\ dep'[d].pc \in WaitPcs
               => \/ dep[d].pc \in WaitPcs
                  \/ dep[d].pc = "unlink" /\ dep'[d].pc = "wait" /\ dep'[d].i = 0
          /\ dep'[d].pc = "dig"
               => \/ dep[d].pc = "dig"
                  \/ dep[d].pc = "reload" /\ dep'[d].i = 0
     /\ \A c \in DbCalls :
          /\ dbCall[c].pc \in WaitDbPcs => dbCall[c].i < dbMaxAttempts
          /\ dbCall[c].pc \in WaitDbPcs /\ dbCall'[c] # dbCall[c] =>
               \/ dbCall'[c].pc \in WaitDbPcs
                    /\ dbCall'[c].i = (IF dbCall'[c].pc = "waitdb" THEN dbCall[c].i + 1
                                       ELSE dbCall[c].i)
                    /\ dbCall'[c].i < dbMaxAttempts
               \/ dbCall'[c].pc = "save"
               \/ /\ dbCall'[c].pc = "failed"
                  /\ dbCall[c].i = dbMaxAttempts - 1
                  /\ dbCall'[c].err = "Database failed to start"
          /\ dbCall'[c].pc \in WaitDbPcs
               => \/ dbCall[c].pc \in WaitDbPcs
                  \/ dbCall[c].pc = "run" /\ dbCall'[c].i = 0]_vars

\* Loops that used up their polls: the deployment failed with the time-out
\* of waitForContainer after its container was removed under it, and the
\* createDatabase call failed with the time-out of waitForDatabase.
LoopsTimedOut ==
  /\ \E d \in Deps :
       /\ dep[d].pc = "failed"
       /\ emitted = [id |-> qid[d], status |-> "failed", error |->
            "Container failed to start properly - timed out waiting for health check"]
  /\ \E c \in DbCalls : dbCall[c].pc = "failed" /\ dbCall[c].err = "Database failed to start"

(***************************************************************************)
(* Properties of the derived names (SpecNames).                            *)
(***************************************************************************)
\* C22: the container name is lowercase(project)-branch, the domain is
\* lowercase(project).<base-domain> for the production or default branch and
\* lowercase(project)-<branch>.<base-domain> for every other branch, the
\* database container name is sanitize(name)-environment-postgres, and
\* removeDeployment derives the same container name and domain as deploy.
\* lowercase(project) is read as dockerImageName, which also replaces white
\* space.
DerivedNamesFollowRule ==
  LET lower == dockerImageName(names.projectName)
      plain == names.branch \in {Str.production, Str.main}
  IN /\ names.containerName # <<>> =>
          /\ names.containerName = lower \o <<"-">> \o names.branch
          /\ names.domain =
               IF plain THEN lower \o <<".">> \o Str.baseDomain
               ELSE lower \o <<"-">> \o names.branch \o <<".">> \o Str.baseDomain
     /\ names.databaseContainerName # <<>> =>
          names.databaseContainerName =
            replaceNonAlphanumeric(toLowerCase(names.name)) \o <<"-">>
              \o names.environment \o <<"-">> \o Str.postgres
     /\ names.containerName # <<>> /\ names.removeContainerName # <<>> =>
          /\ names.removeContainerName = names.containerName
          /\ names.removeDomain = names.domain

\* C39: every entry listDeployments reports for the container of a deployed
\* pair carries the project name and the branch deploy was given and the
\* domain deploy derives for them.
ListInvertsDerivation ==
  \A e \in names.deployments :
    /\ e.project_name = names.projectName
    /\ e.branch = names.branch
    /\ e.domain = domain(names.projectName, names.branch)

====
